---- MODULE Spec2Model ----
(***************************************************************************)
(* Chores Manager: the recurrence calculator, the due classifier of the    *)
(* overview sensor, and the completion / reset / force-due / subtask       *)
(* aggregation handlers of the two database layers (database.py, which the *)
(* services import, and the db/ package).                                  *)
(*                                                                         *)
(* Time.  A timestamp is an integer instant: day * TicksPerDay + tick,     *)
(* where day counts days since 1970-01-01.  The code stores timestamps as  *)
(* datetime.isoformat() strings; on such strings the lexicographic order   *)
(* the SQL uses is the chronological order, and date(...) is the day.      *)
(* Successive handler calls read strictly increasing datetime.now().       *)
(***************************************************************************)
EXTENDS Integers, Sequences, FiniteSets, TLC

\* ------------------------------------------------------------------ bounds
TicksPerDay == 2
MaxClockSteps == 4
MaxSubtasks == 2
CalcDays == 430
CalcGap == 7
MaxCalcSteps == 1

\* --------------------------------------------------------------- sentinels
NULL == -1
ValueError == -2
NoPerson == "NULL"
Diverges == -3
UnboundLocalError == -4

\* ---------------------------------------------------------------- calendar
\* calendar.monthrange(year, month)[1]
DaysInMonth(y, m) ==
    LET IsLeap == (y % 4 = 0) /\ ((y % 100 # 0) \/ (y % 400 = 0))
    IN  IF m = 2 THEN (IF IsLeap THEN 29 ELSE 28)
        ELSE IF m \in {4, 6, 9, 11} THEN 30 ELSE 31

\* datetime.date ordinal arithmetic: day number of a civil date
DaysFromCivil(y, m, d) ==
    LET yy  == IF m <= 2 THEN y - 1 ELSE y
        era == yy \div 400
        yoe == yy - era * 400
        mp  == IF m > 2 THEN m - 3 ELSE m + 9
        doy == (153 * mp + 2) \div 5 + d - 1
        doe == yoe * 365 + yoe \div 4 - yoe \div 100 + doy
    IN  era * 146097 + doe - 719468

\* datetime.date fields of a day number: [year, month, day]
CivilFromDays(z) ==
    LET zz  == z + 719468
        era == zz \div 146097
        doe == zz - era * 146097
        yoe == (doe - doe \div 1460 + doe \div 36524 - doe \div 146096) \div 365
        doy == doe - (365 * yoe + yoe \div 4 - yoe \div 100)
        mp  == (5 * doy + 2) \div 153
        d   == doy - (153 * mp + 2) \div 5 + 1
        m   == IF mp < 10 THEN mp + 3 ELSE mp - 9
        y   == yoe + era * 400 + (IF m <= 2 THEN 1 ELSE 0)
    IN  [year |-> y, month |-> m, day |-> d]

\* date(year, month, day): raises ValueError when the day does not exist
MkDate(y, m, d) ==
    IF d >= 1 /\ d <= DaysInMonth(y, m) THEN DaysFromCivil(y, m, d) ELSE ValueError

\* date.weekday(): Monday = 0 ... Sunday = 6 (1970-01-01 was a Thursday)
Weekday(z) == (z + 3) % 7

day_names == <<"mon", "tue", "wed", "thu", "fri", "sat", "sun">>

\* datetime.date() of a stored timestamp
DateOf(t) == t \div TicksPerDay
\* datetime.combine(d, datetime.min.time()) and .replace(hour=0, ...)
Midnight(d) == d * TicksPerDay

\* round(n / d) for positive integers: Python rounds halves to even
PyRound(n, d) ==
    LET q == n \div d
        r == n % d
    IN  IF 2 * r < d THEN q
        ELSE IF 2 * r > d THEN q + 1
        ELSE IF q % 2 = 0 THEN q ELSE q + 1

Max(a, b) == IF a >= b THEN a ELSE b
Min(a, b) == IF a <= b THEN a ELSE b

\* ------------------------------------------------------- active-day maps
\* A stored active_days / active_monthdays column: kind "null" (SQL NULL),
\* "bad" (a string json.loads rejects) or "map" (a JSON object, decoded in
\* field map).  Weekday maps are keyed by day_names, monthday maps by the day
\* number n standing for the key str(n).
EmptyMap == [k \in {} |-> TRUE]
NoMap == [kind |-> "null", map |-> EmptyMap]
JsonMap(m) == [kind |-> "map", map |-> m]

\* parse_active_days: None / empty -> {}, undecodable string -> {}, JSON -> dict
parse_active_days(active_days_data) ==
    IF active_days_data.kind = "map" THEN active_days_data.map ELSE EmptyMap

\* dict.get(key, default)
MapGet(map, key, default) == IF key \in DOMAIN map THEN map[key] ELSE default
\* truthiness of a dict: non-empty
Truthy(map) == DOMAIN map # {}

\* ------------------------------------------------------ date_utils helpers
\* get_next_occurrence_of_weekday without the roll of 0 days to 7
get_next_occurrence_of_weekday_SameDay(weekday, after_date) ==
    after_date + ((weekday - Weekday(after_date)) % 7)

get_next_occurrence_of_weekday(weekday, after_date) ==
    LET d0 == (weekday - Weekday(after_date)) % 7
        days_ahead == IF d0 = 0 THEN 7 ELSE d0
    IN  after_date + days_ahead

get_next_occurrence_of_monthday(monthday, after_date) ==
    LET a == CivilFromDays(after_date)
        rolled == a.day >= monthday
        next_month == IF rolled THEN (IF a.month = 12 THEN 1 ELSE a.month + 1) ELSE a.month
        next_year  == IF rolled /\ a.month = 12 THEN a.year + 1 ELSE a.year
        actual_day == Min(monthday, DaysInMonth(next_year, next_month))
    IN  MkDate(next_year, next_month, actual_day)

\* ------------------------------------------------ FrequencyCalculator
max_iterations == 8
max_days == 31

\* the bounded active-weekday search of _calculate_daily / _calculate_multiple_weekly
RECURSIVE AdvanceToActiveDay(_, _, _)
AdvanceToActiveDay(active_days, next_due, iterations) ==
    IF iterations >= max_iterations THEN next_due
    ELSE IF MapGet(active_days, day_names[Weekday(next_due) + 1], TRUE) THEN next_due
    ELSE AdvanceToActiveDay(active_days, next_due + 1, iterations + 1)

\* _calculate_daily without the advance to an active day
_calculate_daily_NextDay(chore, last_done) == last_done + 1

_calculate_daily(chore, last_done) ==
    LET active_days == parse_active_days(chore.active_days)
    IN  IF Truthy(active_days)
        THEN AdvanceToActiveDay(active_days, last_done + 1, 0)
        ELSE last_done + 1

_calculate_weekly(chore, last_done) ==
    IF chore.weekday >= 0
    THEN get_next_occurrence_of_weekday(chore.weekday, last_done)
    ELSE last_done + 7

_calculate_multiple_weekly(chore, last_done) ==
    LET active_days == parse_active_days(chore.active_days)
    IN  IF Truthy(active_days)
        THEN AdvanceToActiveDay(active_days, last_done + 1, 0)
        ELSE last_done + Max(1, PyRound(7, chore.frequency_times))

\* the months added without the clamp to the target month's length
AddMonthsClamped_KeepDay(last_done, k) ==
    LET a == CivilFromDays(last_done)
        m0 == a.month + k
        month == IF m0 > 12 THEN m0 - 12 ELSE m0
        year == IF m0 > 12 THEN a.year + 1 ELSE a.year
    IN  MkDate(year, month, a.day)

\* last_done advanced by k calendar months (k = 3, 6), day clamped
AddMonthsClamped(last_done, k) ==
    LET a == CivilFromDays(last_done)
        m0 == a.month + k
        month == IF m0 > 12 THEN m0 - 12 ELSE m0
        year == IF m0 > 12 THEN a.year + 1 ELSE a.year
    IN  MkDate(year, month, Min(a.day, DaysInMonth(year, month)))

_calculate_monthly(chore, last_done) ==
    IF chore.monthday > 0
    THEN get_next_occurrence_of_monthday(chore.monthday, last_done)
    ELSE LET a == CivilFromDays(last_done)
         IN  IF a.month = 12
             THEN MkDate(a.year + 1, 1, a.day)
             ELSE MkDate(a.year, a.month + 1, Min(a.day, DaysInMonth(a.year, a.month + 1)))

\* the 31-day scan for a day whose number is marked active
RECURSIVE ScanActiveMonthday(_, _, _)
ScanActiveMonthday(active_monthdays, curr_date, tried) ==
    IF tried >= max_days THEN NULL
    ELSE IF MapGet(active_monthdays, CivilFromDays(curr_date).day, FALSE) THEN curr_date
    ELSE ScanActiveMonthday(active_monthdays, curr_date + 1, tried + 1)

_calculate_multiple_monthly(chore, last_done) ==
    LET active_monthdays == parse_active_days(chore.active_monthdays)
        interval == Max(1, PyRound(30, chore.frequency_times))
        found == ScanActiveMonthday(active_monthdays, last_done + 1, 0)
    IN  IF Truthy(active_monthdays) /\ found # NULL THEN found ELSE last_done + interval

_calculate_quarterly(chore, last_done) == AddMonthsClamped(last_done, 3)

_calculate_semiannual(chore, last_done) == AddMonthsClamped(last_done, 6)

_calculate_yearly(chore, last_done) ==
    LET a == CivilFromDays(last_done)
        same == MkDate(a.year + 1, a.month, a.day)
    IN  IF same # ValueError THEN same ELSE MkDate(a.year + 1, a.month, 28)

\* _calculate_flexible with the week ending on the Monday after
_calculate_flexible_MondayEnd(chore, last_done) ==
    LET a == CivilFromDays(last_done)
    IN  CASE chore.subtasks_period = "day"   -> last_done + 1
          [] chore.subtasks_period = "week"  -> last_done + (7 - Weekday(last_done))
          [] chore.subtasks_period = "month" -> MkDate(a.year, a.month, DaysInMonth(a.year, a.month))
          [] OTHER -> last_done + 1

_calculate_flexible(chore, last_done) ==
    LET a == CivilFromDays(last_done)
    IN  CASE chore.subtasks_period = "day"   -> last_done + 1
          [] chore.subtasks_period = "week"  -> last_done + (6 - Weekday(last_done))
          [] chore.subtasks_period = "month" -> MkDate(a.year, a.month, DaysInMonth(a.year, a.month))
          [] OTHER -> last_done + 1

\* FrequencyCalculator.calculate_next_due_date(chore), read at instant now
FC_calculate_next_due_date(chore, now) ==
    IF chore.last_done = NULL THEN DateOf(now)
    ELSE LET last_done == DateOf(chore.last_done)
             ft == chore.frequency_type
         IN  CASE ft = "Dagelijks" -> _calculate_daily(chore, last_done)
               [] ft = "Wekelijks" -> _calculate_weekly(chore, last_done)
               [] ft = "Meerdere keren per week" -> _calculate_multiple_weekly(chore, last_done)
               [] ft = "Maandelijks" -> _calculate_monthly(chore, last_done)
               [] ft = "Meerdere keren per maand" -> _calculate_multiple_monthly(chore, last_done)
               [] ft = "Per kwartaal" -> _calculate_quarterly(chore, last_done)
               [] ft = "Halfjaarlijks" -> _calculate_semiannual(chore, last_done)
               [] ft = "Jaarlijks" -> _calculate_yearly(chore, last_done)
               [] ft = "Flexibel" -> _calculate_flexible(chore, last_done)
               [] OTHER -> last_done + chore.frequency_days

\* names as character sequences, so that str.strip() is computed
RECURSIVE LStrip(_)
LStrip(s) == IF s # <<>> /\ Head(s) = " " THEN LStrip(Tail(s)) ELSE s
RECURSIVE RStrip(_)
RStrip(s) == IF s # <<>> /\ s[Len(s)] = " " THEN RStrip(SubSeq(s, 1, Len(s) - 1)) ELSE s
Strip(s) == RStrip(LStrip(s))

\* is_due_today that holds on the due date only
is_due_today_ExactDay(chore, now) ==
    IF chore.chore_id = "" \/ Strip(chore.name) = <<>> THEN FALSE
    ELSE IF chore.last_done = NULL THEN TRUE
    ELSE FC_calculate_next_due_date(chore, now) = DateOf(now)

\* FrequencyCalculator.is_due_today / is_overdue
is_due_today(chore, now) ==
    IF chore.chore_id = "" \/ Strip(chore.name) = <<>> THEN FALSE
    ELSE IF chore.last_done = NULL THEN TRUE
    ELSE FC_calculate_next_due_date(chore, now) <= DateOf(now)

\* is_overdue without the never-completed test
is_overdue_NoNullTest(chore, now) ==
    FC_calculate_next_due_date(chore, now) < DateOf(now)

is_overdue(chore, now) ==
    IF chore.last_done = NULL THEN TRUE
    ELSE FC_calculate_next_due_date(chore, now) < DateOf(now)

\* ------------------------------------- ChoresOverviewSensor (sensor.py)
\* the raw column as the sensor decodes it: falsy column -> branch not taken,
\* string -> json.loads (any failure -> {})
SensorColumnSet(col) == col.kind # "null"
SensorDecode(col) == IF col.kind = "map" THEN col.map ELSE EmptyMap

\* the unbounded "while True" active-weekday search: a week without an active
\* day never ends
RECURSIVE SensorAdvanceToActiveDay(_, _, _)
SensorAdvanceToActiveDay(active_days, next_due, steps) ==
    IF steps >= 7 THEN Diverges
    ELSE IF MapGet(active_days, day_names[Weekday(next_due) + 1], TRUE) THEN next_due
    ELSE SensorAdvanceToActiveDay(active_days, next_due + 1, steps + 1)

SensorFlexible(chore, last_done) ==
    LET a == CivilFromDays(last_done)
    IN  CASE chore.subtasks_period = "day"   -> last_done + 1
          [] chore.subtasks_period = "week"  -> last_done + (6 - Weekday(last_done))
          [] chore.subtasks_period = "month" -> MkDate(a.year, a.month, DaysInMonth(a.year, a.month))
          [] OTHER -> UnboundLocalError

SensorMonthly(chore, last_done) ==
    LET a == CivilFromDays(last_done)
        next_month == IF a.month = 12 THEN 1 ELSE a.month + 1
        next_year == IF a.month = 12 THEN a.year + 1 ELSE a.year
    IN  IF chore.monthday > 0
        THEN MkDate(next_year, next_month, Min(chore.monthday, DaysInMonth(next_year, next_month)))
        ELSE IF a.month = 12
             THEN MkDate(a.year + 1, 1, a.day)
             ELSE MkDate(a.year, a.month + 1, Min(a.day, DaysInMonth(a.year, a.month + 1)))

SensorMultipleMonthly(chore, last_done) ==
    LET active_days == SensorDecode(chore.active_monthdays)
        active_days_count == Cardinality({k \in DOMAIN active_days : active_days[k]})
        interval == Max(1, PyRound(30, chore.frequency_times))
        found == ScanActiveMonthday(active_days, last_done + 1, 0)
    IN  IF SensorColumnSet(chore.active_monthdays) /\ active_days_count > 0 /\ found # NULL
        THEN found
        ELSE last_done + interval

\* ChoresOverviewSensor.calculate_next_due_date(chore), read at instant now
sensor_calculate_next_due_date(chore, now) ==
    IF chore.last_done = NULL THEN DateOf(now)
    ELSE LET last_done == DateOf(chore.last_done)
             ft == chore.frequency_type
             a == CivilFromDays(last_done)
         IN  CASE ft = "Dagelijks" ->
                    IF SensorColumnSet(chore.active_days)
                    THEN SensorAdvanceToActiveDay(SensorDecode(chore.active_days), last_done + 1, 0)
                    ELSE last_done + 1
               [] ft = "Flexibel" -> SensorFlexible(chore, last_done)
               [] ft = "Wekelijks" ->
                    IF chore.weekday >= 0
                    THEN LET d0 == (chore.weekday - Weekday(last_done)) % 7
                         IN  last_done + (IF d0 = 0 THEN 7 ELSE d0)
                    ELSE last_done + 7
               [] ft = "Meerdere keren per week" ->
                    IF SensorColumnSet(chore.active_days)
                    THEN SensorAdvanceToActiveDay(SensorDecode(chore.active_days), last_done + 1, 0)
                    ELSE last_done + Max(1, PyRound(7, chore.frequency_times))
               [] ft = "Maandelijks" -> SensorMonthly(chore, last_done)
               [] ft = "Meerdere keren per maand" -> SensorMultipleMonthly(chore, last_done)
               [] ft = "Per kwartaal" -> AddMonthsClamped(last_done, 3)
               [] ft = "Halfjaarlijks" -> AddMonthsClamped(last_done, 6)
               [] ft = "Jaarlijks" -> MkDate(a.year + 1, a.month, a.day)
               [] OTHER -> last_done + (IF chore.frequency_days = 0 THEN 7 ELSE chore.frequency_days)

\* =====================================================================
\* Date texts: a text is a sequence of characters
\* =====================================================================
DigitChars == <<"0", "1", "2", "3", "4", "5", "6", "7", "8", "9">>
D2(n) == <<DigitChars[((n \div 10) % 10) + 1], DigitChars[(n % 10) + 1]>>

InText(c, s) == \E i \in DOMAIN s : s[i] = c
IsNumber(s) == s # <<>> /\ \A i \in DOMAIN s : \E n \in 1..10 : DigitChars[n] = s[i]
RECURSIVE NumberOf(_)
NumberOf(s) ==
    IF s = <<>> THEN 0
    ELSE 10 * NumberOf(SubSeq(s, 1, Len(s) - 1))
         + (CHOOSE n \in 1..10 : DigitChars[n] = s[Len(s)]) - 1

\* str.replace('Z', '+00:00')
RECURSIVE ReplaceZ(_)
ReplaceZ(s) ==
    IF s = <<>> THEN <<>>
    ELSE (IF Head(s) = "Z" THEN <<"+", "0", "0", ":", "0", "0">> ELSE <<Head(s)>>)
         \o ReplaceZ(Tail(s))

\* the text of a date and of a time of day; SecondsOfTick is the second of
\* the day at which a tick starts
YmdText(y, m, d) ==
    D2(y \div 100) \o D2(y % 100) \o <<"-">> \o D2(m) \o <<"-">> \o D2(d)
SecondsOfTick(k) == (k * 86400) \div TicksPerDay
TickOfSeconds(sec) == (sec * TicksPerDay) \div 86400
DateText(day) ==
    LET a == CivilFromDays(day) IN YmdText(a.year, a.month, a.day)
TimeText(k) ==
    LET sec == SecondsOfTick(k)
    IN  D2(sec \div 3600) \o <<":">> \o D2((sec \div 60) % 60) \o <<":">> \o D2(sec % 60)

\* datetime.isoformat() of an instant with microsecond 0
isoformat(t) == DateText(DateOf(t)) \o <<"T">> \o TimeText(t % TicksPerDay)

\* re.match(r'(\d{4}-\d{2}-\d{2})', s): the matched prefix, or <<>>
DateMatch(s) ==
    IF /\ Len(s) >= 10
       /\ IsNumber(SubSeq(s, 1, 4)) /\ s[5] = "-"
       /\ IsNumber(SubSeq(s, 6, 7)) /\ s[8] = "-"
       /\ IsNumber(SubSeq(s, 9, 10))
    THEN SubSeq(s, 1, 10) ELSE <<>>

\* the date of a text YYYY-MM-DD with two-digit month and day
YmdValue(s) ==
    IF Len(s) = 10 /\ DateMatch(s) # <<>>
    THEN LET y == NumberOf(SubSeq(s, 1, 4))
             m == NumberOf(SubSeq(s, 6, 7))
             d == NumberOf(SubSeq(s, 9, 10))
         IN  IF y >= 1 /\ m \in 1..12 THEN MkDate(y, m, d) ELSE ValueError
    ELSE ValueError

\* the second of the day of a text HH:MM:SS
HmsValue(s) ==
    IF /\ Len(s) = 8
       /\ IsNumber(SubSeq(s, 1, 2)) /\ s[3] = ":"
       /\ IsNumber(SubSeq(s, 4, 5)) /\ s[6] = ":"
       /\ IsNumber(SubSeq(s, 7, 8))
    THEN LET h == NumberOf(SubSeq(s, 1, 2))
             m == NumberOf(SubSeq(s, 4, 5))
             sec == NumberOf(SubSeq(s, 7, 8))
         IN  IF h <= 23 /\ m <= 59 /\ sec <= 59 THEN h * 3600 + m * 60 + sec
             ELSE ValueError
    ELSE ValueError

\* datetime.strptime(s, '%Y-%m-%d') and (s, '%Y-%m-%d %H:%M:%S') on texts
\* whose fields have their full number of digits
strptime_date(s) ==
    LET day == YmdValue(s)
    IN  IF day = ValueError THEN ValueError ELSE Midnight(day)

\* datetime.fromisoformat on a text that starts with YYYY-MM-DD.  The time
\* part (Python 3.11) is HH, HH:MM, HH:MM:SS or HH:MM:SS.f..., each with an
\* optional +HH:MM; IsoTimeValue is its second of the day
fromisoformat(s) ==
    IF Len(s) < 10 THEN ValueError
    ELSE LET IsoTimeValue(t) ==
                 LET n == Len(t)
                     tz == n >= 6 /\ t[n - 5] \in {"+", "-"} /\ t[n - 2] = ":"
                              /\ IsNumber(SubSeq(t, n - 4, n - 3))
                              /\ IsNumber(SubSeq(t, n - 1, n))
                     body == IF tz THEN SubSeq(t, 1, n - 6) ELSE t
                     b == Len(body)
                     frac == b >= 10 /\ body[9] = "." /\ IsNumber(SubSeq(body, 10, b))
                     hms == IF frac THEN SubSeq(body, 1, 8)
                            ELSE IF b = 2 THEN body \o <<":", "0", "0", ":", "0", "0">>
                            ELSE IF b = 5 THEN body \o <<":", "0", "0">>
                            ELSE body
                 IN  HmsValue(hms)
             day == YmdValue(SubSeq(s, 1, 10))
         IN  IF day = ValueError THEN ValueError
             ELSE IF Len(s) = 10 THEN Midnight(day)
             ELSE LET sec == IsoTimeValue(SubSeq(s, 12, Len(s)))
                  IN  IF sec = ValueError THEN ValueError
                      ELSE Midnight(day) + TickOfSeconds(sec)

\* utils/date_utils.py parse_date and ChoresOverviewSensor.parse_date (the
\* same code): the instant, or ValueError when the strptime of the matched
\* date part raises inside the except clause
parse_date(date_string, now) ==
    LET iso == fromisoformat(ReplaceZ(date_string))
        \* datetime.strptime(date_string, '%Y-%m-%d %H:%M:%S')
        strptime_datetime(s) ==
            IF Len(s) = 19 /\ s[11] = " "
            THEN LET day == YmdValue(SubSeq(s, 1, 10))
                     sec == HmsValue(SubSeq(s, 12, 19))
                 IN  IF day = ValueError \/ sec = ValueError THEN ValueError
                     ELSE Midnight(day) + TickOfSeconds(sec)
            ELSE ValueError
        std == IF InText(" ", date_string) THEN strptime_datetime(date_string)
               ELSE strptime_date(date_string)
        rest == IF std = ValueError THEN now ELSE std
    IN  IF date_string = <<>> THEN now
        ELSE IF InText("T", date_string)
        THEN IF iso # ValueError THEN iso
             ELSE IF DateMatch(date_string) # <<>>
                  THEN strptime_date(DateMatch(date_string))
                  ELSE rest
        ELSE rest

\* =====================================================================
\* The store (SQLite tables) and the handlers
\* =====================================================================
VARIABLES
    layer,                \* which database layer the handlers run: "database" (database.py) or "db" (db/ package)
    utc_offset,           \* ticks by which local time (datetime.now()) is ahead of SQLite's UTC 'now'
    now,                  \* the wall clock, local time
    chores,               \* table chores: id -> row
    chore_history,        \* table chore_history: rows [chore_id, done_by, done_at]
    subtasks,             \* table subtasks: rows [id, chore_id]
    subtask_completions,  \* table subtask_completions: rows [subtask_id, done_by, done_at]
    notification_log,     \* table notification_log: rows [chore_id, sent_at]
    next_subtask_id,      \* AUTOINCREMENT counter of table subtasks
    result,               \* outcome of the last handler call
    out,                  \* the reading of the classifiers taken in this state, if any
    horizon,              \* the last instant the clock reaches in this behaviour
    calls                 \* mark_done service calls in flight: call id -> [pc, chore_id, person, at, read]

vars == <<layer, utc_offset, now, chores, chore_history, subtasks,
          subtask_completions, notification_log, next_subtask_id, result, out, horizon,
          calls>>

Layers == {"database", "db"}
\* table assignees, the rows with active = 1
ActiveAssignees == {"A", "B"}
Persons == {"A", "B"}
ChoreIds == {"c1", "c2"}

\* date('now') as SQLite computes it: the UTC date
SqlDateNow == DateOf(now - utc_offset)

\* rows of one chore
SubtaskIdsOf(subs, chore_id) == {s.id : s \in {x \in subs : x.chore_id = chore_id}}
HistoryOf(hist, chore_id) == {h \in hist : h.chore_id = chore_id}
CompletionsOf(subs, comps, chore_id) ==
    {r \in comps : r.subtask_id \in SubtaskIdsOf(subs, chore_id)}

NoResult == [op |-> "none", chore_id |-> "", subtask_id |-> 0, person |-> NoPerson,
             ok |-> FALSE, error |-> "", at |-> NULL]
Ok(op, chore_id, subtask_id, person) ==
    [op |-> op, chore_id |-> chore_id, subtask_id |-> subtask_id, person |-> person,
     ok |-> TRUE, error |-> "", at |-> now]
Failed(op, chore_id, subtask_id, person, error) ==
    [op |-> op, chore_id |-> chore_id, subtask_id |-> subtask_id, person |-> person,
     ok |-> FALSE, error |-> error, at |-> now]

NoReading == [kind |-> "none", chore_id |-> "", is_due_today |-> FALSE,
              is_overdue |-> FALSE, next_due |-> NULL, status |-> "",
              due_tasks |-> [a \in ActiveAssignees |-> {}],
              next_due_date |-> EmptyMap,
              streak |-> [a \in ActiveAssignees |-> 0],
              parsed |-> NULL]

\* the executor jobs of handle_mark_done: none has been submitted
CallIds == {1, 2}
NoCalls ==
    [k \in CallIds |-> [pc |-> "idle", chore_id |-> "", person |-> NoPerson, at |-> NULL,
                        read |-> <<FALSE, "", "">>]]

\* a handler call of layer l reads the clock (datetime.now()) and takes time;
\* a reading taken before it is no longer a reading of the tables
Call(l) ==
    /\ layer = l
    /\ now < horizon
    /\ now' = now + 1
    /\ out' = NoReading
    /\ UNCHANGED <<layer, utc_offset, horizon, calls>>

\* ------------------------------------------------------ mark_chore_done
\* MarkedRow with the UPDATE forgetting last_done_by
MarkedRow_KeepsActor(row, person) ==
    LET swap == row.use_alternating /\ row.alternate_with # ""
    IN  [row EXCEPT !.assigned_to = IF swap THEN row.alternate_with ELSE @,
                    !.alternate_with = IF swap THEN row.assigned_to ELSE @,
                    !.last_done = now]

\* MarkedRow with the swap written one way only (new_alternate = alternate_with)
MarkedRow_OneWaySwap(row, person) ==
    LET swap == row.use_alternating /\ row.alternate_with # ""
    IN  [row EXCEPT !.assigned_to = IF swap THEN row.alternate_with ELSE @,
                    !.last_done = now,
                    !.last_done_by = person]

\* the alternation swap and the last_done update, shared by both layers
MarkedRow(row, person) ==
    LET swap == row.use_alternating /\ row.alternate_with # ""
    IN  [row EXCEPT !.assigned_to = IF swap THEN row.alternate_with ELSE @,
                    !.alternate_with = IF swap THEN row.assigned_to ELSE @,
                    !.last_done = now,
                    !.last_done_by = person]

\* db/history.py
db_mark_chore_done(chore_id, person) ==
    /\ Call("db")
    /\ IF chore_id \notin DOMAIN chores
       THEN /\ result' = Failed("mark_chore_done", chore_id, 0, person, "ValueError: not found")
            /\ UNCHANGED <<chores, chore_history>>
       ELSE /\ chores' = [chores EXCEPT ![chore_id] = MarkedRow(@, person)]
            /\ chore_history' = chore_history \cup
                   {[chore_id |-> chore_id, done_by |-> person, done_at |-> now]}
            /\ result' = Ok("mark_chore_done", chore_id, 0, person)
    /\ UNCHANGED <<subtasks, subtask_completions, notification_log, next_subtask_id>>

\* database.py: also completes every subtask; an unknown id ends in
\* cursor.fetchone()[0] on no row (TypeError) and the rollback
database_mark_chore_done(chore_id, person) ==
    /\ Call("database")
    /\ IF chore_id \notin DOMAIN chores
       THEN /\ result' = Failed("mark_chore_done", chore_id, 0, person, "TypeError")
            /\ UNCHANGED <<chores, chore_history, subtask_completions>>
       ELSE /\ chores' = [chores EXCEPT ![chore_id] = MarkedRow(@, person)]
            /\ chore_history' = chore_history \cup
                   {[chore_id |-> chore_id, done_by |-> person, done_at |-> now]}
            /\ subtask_completions' =
                   IF chores[chore_id].has_subtasks
                   THEN subtask_completions \cup
                        {[subtask_id |-> sid, done_by |-> person, done_at |-> now] :
                            sid \in SubtaskIdsOf(subtasks, chore_id)}
                   ELSE subtask_completions
            /\ result' = Ok("mark_chore_done", chore_id, 0, person)
    /\ UNCHANGED <<subtasks, notification_log, next_subtask_id>>

\* ----------------------------------------------------------- reset_chore
\* db/chores.py
db_reset_chore(chore_id) ==
    /\ Call("db")
    /\ IF chore_id \notin DOMAIN chores
       THEN /\ result' = Failed("reset_chore", chore_id, 0, NoPerson, "Chore not found")
            /\ UNCHANGED <<chores, chore_history, subtask_completions>>
       ELSE /\ chore_history' = {h \in chore_history :
                   ~(h.chore_id = chore_id /\ DateOf(h.done_at) = SqlDateNow)}
            /\ chores' = [chores EXCEPT ![chore_id].last_done = NULL,
                                        ![chore_id].last_done_by = NoPerson]
            /\ subtask_completions' =
                   IF chores[chore_id].has_subtasks
                   THEN {r \in subtask_completions :
                            ~(r.subtask_id \in SubtaskIdsOf(subtasks, chore_id)
                              /\ DateOf(r.done_at) = SqlDateNow)}
                   ELSE subtask_completions
            /\ result' = Ok("reset_chore", chore_id, 0, NoPerson)
    /\ UNCHANGED <<subtasks, notification_log, next_subtask_id>>

\* database.py: "cursor.fetchone() and cursor.fetchone()[0]" reads the single
\* row twice; for a stored chore the second read is None and None[0] raises
\* TypeError, so everything is rolled back; for an unknown id the first read
\* is None and the call commits nothing and reports success
database_reset_chore(chore_id) ==
    /\ Call("database")
    /\ result' = IF chore_id \in DOMAIN chores
                 THEN Failed("reset_chore", chore_id, 0, NoPerson, "TypeError")
                 ELSE Ok("reset_chore", chore_id, 0, NoPerson)
    /\ UNCHANGED <<chores, chore_history, subtasks, subtask_completions,
                   notification_log, next_subtask_id>>

\* ------------------------------------------------------- force_chore_due
\* db/chores.py _calculate_frequency_days
_calculate_frequency_days(chore) ==
    LET ft == chore.frequency_type
    IN  CASE ft = "Dagelijks" -> 1
          [] ft = "Wekelijks" -> 7
          [] ft = "Meerdere keren per week" -> 3
          [] ft = "Maandelijks" -> 30
          [] ft = "Flexibel" -> 1
          [] ft = "Per kwartaal" -> 90
          [] ft = "Halfjaarlijks" -> 180
          [] ft = "Jaarlijks" -> 365
          [] OTHER -> chore.frequency_days

\* database.py force_chore_due: the if/elif chain
database_shift_days(chore) ==
    LET ft == chore.frequency_type
    IN  CASE ft = "Dagelijks" -> 1
          [] ft = "Wekelijks" -> 7
          [] ft = "Meerdere keren per week" -> 3
          [] ft = "Maandelijks" -> 30
          [] ft = "Flexibel" -> 1
          [] OTHER -> IF chore.frequency_days = 0 THEN 7 ELSE chore.frequency_days

ForcedRow(row, shift_days) ==
    [row EXCEPT !.last_done = Midnight(DateOf(now) - (shift_days + 1))]

ForceChoreDue(chore_id, shift_days) ==
    /\ IF chore_id \notin DOMAIN chores
       THEN /\ result' = Failed("force_chore_due", chore_id, 0, NoPerson, "not found")
            /\ UNCHANGED <<chores, notification_log>>
       ELSE /\ chores' = [chores EXCEPT ![chore_id] = ForcedRow(@, shift_days)]
            /\ notification_log' =
                   IF chores[chore_id].notify_when_due
                   THEN notification_log \cup {[chore_id |-> chore_id, sent_at |-> now]}
                   ELSE notification_log
            /\ result' = Ok("force_chore_due", chore_id, 0, NoPerson)
    /\ UNCHANGED <<chore_history, subtasks, subtask_completions, next_subtask_id>>

\* db/chores.py
db_force_chore_due(chore_id) ==
    /\ Call("db")
    /\ ForceChoreDue(chore_id, IF chore_id \in DOMAIN chores
                               THEN _calculate_frequency_days(chores[chore_id]) ELSE 0)

\* database.py
database_force_chore_due(chore_id) ==
    /\ Call("database")
    /\ ForceChoreDue(chore_id, IF chore_id \in DOMAIN chores
                               THEN database_shift_days(chores[chore_id]) ELSE 0)

\* --------------------------------------------------- subtask aggregation
\* _get_period_start / the period_start of database.py: local midnight of
\* today, of this week's Monday, or of the first of this month
_get_period_start(period) ==
    LET today == DateOf(now)
        a == CivilFromDays(today)
    IN  CASE period = "day"   -> Midnight(today)
          [] period = "week"  -> Midnight(today - Weekday(today))
          [] period = "month" -> Midnight(MkDate(a.year, a.month, 1))
          [] OTHER -> Midnight(today)

\* completions of the chore's current subtasks with done_at >= period_start
InPeriod(subs, comps, chore_id) ==
    {r \in CompletionsOf(subs, comps, chore_id) :
        r.done_at >= _get_period_start(chores[chore_id].subtasks_period)}

\* the count of completion rows instead of distinct subtasks
CompletedCount_EveryRow(subs, comps, chore_id) ==
    Cardinality(InPeriod(subs, comps, chore_id))

\* COUNT(DISTINCT subtask_id) / the per-subtask EXISTS of get_subtasks_for_chore
CompletedCount(subs, comps, chore_id) ==
    Cardinality({r.subtask_id : r \in InPeriod(subs, comps, chore_id)})

\* SELECT MAX(done_at), done_by: the rows holding the maximum
LatestRows(subs, comps, chore_id) ==
    {r \in InPeriod(subs, comps, chore_id) :
        \A q \in InPeriod(subs, comps, chore_id) : q.done_at <= r.done_at}

\* db_update_outcomes with the 'all' policy satisfied by any completion
db_update_outcomes_AllAsAny(ch, subs, comps, chore_id) ==
    IF chore_id \notin DOMAIN ch \/ ~ch[chore_id].has_subtasks
       \/ SubtaskIdsOf(subs, chore_id) = {}
    THEN {ch}
    ELSE IF CompletedCount(subs, comps, chore_id) > 0
         THEN {[ch EXCEPT ![chore_id].last_done = r.done_at,
                          ![chore_id].last_done_by = r.done_by] :
                   r \in LatestRows(subs, comps, chore_id)}
         ELSE {ch}

\* db/subtasks.py update_chore_completion_status, on tables (ch, subs, comps):
\* the set of chores tables it can leave
db_update_outcomes(ch, subs, comps, chore_id) ==
    IF chore_id \notin DOMAIN ch \/ ~ch[chore_id].has_subtasks
       \/ SubtaskIdsOf(subs, chore_id) = {}
    THEN {ch}
    ELSE LET total_subtasks == Cardinality(SubtaskIdsOf(subs, chore_id))
             completed_subtasks == CompletedCount(subs, comps, chore_id)
             completion_type == ch[chore_id].subtasks_completion_type
             should_complete ==
                 \/ completion_type = "all" /\ completed_subtasks = total_subtasks
                 \/ completion_type = "any" /\ completed_subtasks > 0
         IN  IF should_complete /\ LatestRows(subs, comps, chore_id) # {}
             THEN {[ch EXCEPT ![chore_id].last_done = r.done_at,
                              ![chore_id].last_done_by = r.done_by] :
                       r \in LatestRows(subs, comps, chore_id)}
             ELSE {ch}

\* database.py update_chore_completion_status: whether it reaches the UPDATE
database_update_writes(ch, subs, comps, chore_id) ==
    /\ chore_id \in DOMAIN ch
    /\ ch[chore_id].has_subtasks
    /\ SubtaskIdsOf(subs, chore_id) # {}
    /\ LET completed_count == CompletedCount(subs, comps, chore_id)
       IN  IF ch[chore_id].subtasks_completion_type = "all"
           THEN completed_count = Cardinality(SubtaskIdsOf(subs, chore_id))
           ELSE completed_count > 0
    /\ \E r \in LatestRows(subs, comps, chore_id) :
           ch[chore_id].last_done = NULL \/ ch[chore_id].last_done < r.done_at

database_update_outcomes(ch, subs, comps, chore_id) ==
    IF database_update_writes(ch, subs, comps, chore_id)
    THEN {[ch EXCEPT ![chore_id].last_done = r.done_at,
                     ![chore_id].last_done_by = r.done_by] :
              r \in LatestRows(subs, comps, chore_id)}
    ELSE {ch}

\* the handler-level call of update_chore_completion_status
db_update_chore_completion_status(chore_id) ==
    /\ Call("db")
    /\ chores' \in db_update_outcomes(chores, subtasks, subtask_completions, chore_id)
    /\ result' = Ok("update_chore_completion_status", chore_id, 0, NoPerson)
    /\ UNCHANGED <<chore_history, subtasks, subtask_completions, notification_log,
                   next_subtask_id>>

database_update_chore_completion_status(chore_id) ==
    /\ Call("database")
    /\ IF chore_id \notin DOMAIN chores
       THEN /\ result' = Failed("update_chore_completion_status", chore_id, 0, NoPerson,
                                "ValueError: not found")
            /\ UNCHANGED chores
       ELSE /\ chores' \in database_update_outcomes(chores, subtasks, subtask_completions,
                                                    chore_id)
            /\ result' = Ok("update_chore_completion_status", chore_id, 0, NoPerson)
    /\ UNCHANGED <<chore_history, subtasks, subtask_completions, notification_log,
                   next_subtask_id>>

\* ------------------------------------------------------ complete_subtask
SubtaskRow(subtask_id) == CHOOSE s \in subtasks : s.id = subtask_id
SubtaskExists(subtask_id) == \E s \in subtasks : s.id = subtask_id

\* db/subtasks.py: insert, commit, then aggregate
db_complete_subtask(subtask_id, person) ==
    /\ Call("db")
    /\ IF ~SubtaskExists(subtask_id)
       THEN /\ result' = Failed("complete_subtask", "", subtask_id, person,
                                "ValueError: not found")
            /\ UNCHANGED <<chores, subtask_completions>>
       ELSE LET chore_id == SubtaskRow(subtask_id).chore_id
                comps == subtask_completions \cup
                    {[subtask_id |-> subtask_id, done_by |-> person, done_at |-> now]}
            IN  /\ subtask_completions' = comps
                /\ chores' \in db_update_outcomes(chores, subtasks, comps, chore_id)
                /\ result' = Ok("complete_subtask", chore_id, subtask_id, person)
    /\ UNCHANGED <<chore_history, subtasks, notification_log, next_subtask_id>>

\* services/chore_services.py handle_complete_subtask over database.py.
\* complete_subtask inserts without committing and calls
\* update_chore_completion_status, which opens its own connection: it reads
\* the tables without the new row, and if it reaches its UPDATE the write
\* lock held by the insert makes it fail (OperationalError: database is
\* locked) and the insert is rolled back.  After a successful
\* complete_subtask the handler calls update_chore_completion_status again.
database_handle_complete_subtask(subtask_id, person) ==
    /\ Call("database")
    /\ IF ~SubtaskExists(subtask_id)
       THEN /\ result' = Failed("complete_subtask", "", subtask_id, person,
                                "ValueError: not found")
            /\ UNCHANGED <<chores, subtask_completions>>
       ELSE LET chore_id == SubtaskRow(subtask_id).chore_id
                comps == subtask_completions \cup
                    {[subtask_id |-> subtask_id, done_by |-> person, done_at |-> now]}
            IN  IF database_update_writes(chores, subtasks, subtask_completions, chore_id)
                THEN /\ result' = Failed("complete_subtask", chore_id, subtask_id, person,
                                         "OperationalError: database is locked")
                     /\ UNCHANGED <<chores, subtask_completions>>
                ELSE /\ subtask_completions' = comps
                     /\ chores' \in database_update_outcomes(chores, subtasks, comps, chore_id)
                     /\ result' = Ok("complete_subtask", chore_id, subtask_id, person)
    /\ UNCHANGED <<chore_history, subtasks, notification_log, next_subtask_id>>

\* ------------------------------------------------ add_subtask / delete_subtask
\* both layers: insert the subtask and set has_subtasks
add_subtask(chore_id) ==
    /\ \E l \in Layers : Call(l)
    /\ next_subtask_id <= MaxSubtasks
    /\ IF chore_id \notin DOMAIN chores
       THEN /\ result' = Failed("add_subtask", chore_id, 0, NoPerson, "ValueError: not found")
            /\ UNCHANGED <<chores, subtasks, next_subtask_id>>
       ELSE /\ subtasks' = subtasks \cup {[id |-> next_subtask_id, chore_id |-> chore_id]}
            /\ next_subtask_id' = next_subtask_id + 1
            /\ chores' = [chores EXCEPT ![chore_id].has_subtasks = TRUE]
            /\ result' = Ok("add_subtask", chore_id, next_subtask_id, NoPerson)
    /\ UNCHANGED <<chore_history, subtask_completions, notification_log>>

\* the chores table after the has_subtasks bookkeeping of delete_subtask
AfterDeleteFlag(chore_id, subs) ==
    IF chore_id \in DOMAIN chores /\ SubtaskIdsOf(subs, chore_id) = {}
    THEN [chores EXCEPT ![chore_id].has_subtasks = FALSE]
    ELSE chores

\* handle_delete_subtask over db/subtasks.py: the completions of the deleted
\* subtask stay (foreign keys are not enforced); then the aggregation runs
db_handle_delete_subtask(subtask_id) ==
    /\ Call("db")
    /\ IF ~SubtaskExists(subtask_id)
       THEN /\ result' = Failed("delete_subtask", "", subtask_id, NoPerson,
                                "ValueError: not found")
            /\ UNCHANGED <<chores, subtasks>>
       ELSE LET chore_id == SubtaskRow(subtask_id).chore_id
                subs == subtasks \ {SubtaskRow(subtask_id)}
            IN  /\ subtasks' = subs
                /\ chores' \in db_update_outcomes(AfterDeleteFlag(chore_id, subs), subs,
                                                  subtask_completions, chore_id)
                /\ result' = Ok("delete_subtask", chore_id, subtask_id, NoPerson)
    /\ UNCHANGED <<chore_history, subtask_completions, notification_log, next_subtask_id>>

\* handle_delete_subtask over database.py: the completions are deleted too
database_handle_delete_subtask(subtask_id) ==
    /\ Call("database")
    /\ IF ~SubtaskExists(subtask_id)
       THEN /\ result' = Failed("delete_subtask", "", subtask_id, NoPerson,
                                "ValueError: not found")
            /\ UNCHANGED <<chores, subtasks, subtask_completions>>
       ELSE LET chore_id == SubtaskRow(subtask_id).chore_id
                subs == subtasks \ {SubtaskRow(subtask_id)}
                comps == {r \in subtask_completions : r.subtask_id # subtask_id}
            IN  /\ subtasks' = subs
                /\ subtask_completions' = comps
                /\ chores' \in database_update_outcomes(AfterDeleteFlag(chore_id, subs), subs,
                                                        comps, chore_id)
                /\ result' = Ok("delete_subtask", chore_id, subtask_id, NoPerson)
    /\ UNCHANGED <<chore_history, notification_log, next_subtask_id>>

\* ------------------------------------------- the overview sensor's due view
\* get_data, lines 158-184: is_due_today and not completed_today, per assignee
SensorIsDueToday(chore, t) ==
    IF chore.last_done = NULL THEN TRUE
    ELSE sensor_calculate_next_due_date(chore, t) <= DateOf(t)

\* SensorDueTasks without the completed_today test
SensorDueTasks_CountsCompleted(ch, t) ==
    [a \in ActiveAssignees |->
        {c \in DOMAIN ch : ch[c].assigned_to = a /\ SensorIsDueToday(ch[c], t)}]

SensorDueTasks(ch, t) ==
    [a \in ActiveAssignees |->
        {c \in DOMAIN ch : /\ ch[c].assigned_to = a
                           /\ SensorIsDueToday(ch[c], t)
                           /\ ~(/\ ch[c].last_done # NULL
                                /\ DateOf(ch[c].last_done) = DateOf(t))}]

\* get_data's next_due_date of every task that has a last_done; a negative
\* value stands for the exception calculate_next_due_date ends in
SensorNextDueDates(ch, t) ==
    [c \in {k \in DOMAIN ch : ch[k].last_done # NULL} |->
        sensor_calculate_next_due_date(ch[c], t)]

\* ------------------------------------------------------------- streaks
\* db/history.py: the distinct local dates of the person's completions whose
\* done_at text is not below datetime('now', '-30 days'); a done_at of the
\* boundary date has 'T' where the bound has ' ' and so is not below it
StreakDates(person) ==
    {DateOf(h.done_at) : h \in {e \in chore_history :
        e.done_by = person /\ DateOf(e.done_at) >= SqlDateNow - 30}}

\* the loop for i in range(1, min(len(dates), 30)); task_count is the COUNT(*)
\* of the person's chores never done or last done on or before prev_date
RECURSIVE StreakLoop(_, _, _, _, _)
StreakLoop(dates, person, i, current_date, streak) ==
    IF i >= Min(Cardinality(dates), 30) THEN streak
    ELSE LET prev_date == current_date - 1
             task_count ==
                 Cardinality({c \in DOMAIN chores :
                     /\ chores[c].assigned_to = person
                     /\ (chores[c].last_done = NULL
                         \/ DateOf(chores[c].last_done) <= prev_date)})
         IN  IF prev_date \in dates
             THEN StreakLoop(dates, person, i + 1, prev_date, streak + 1)
             ELSE IF task_count = 0
                  THEN StreakLoop(dates, person, i + 1, prev_date, streak + 1)
                  ELSE streak

\* _calculate_streak without the test of dates[0] against today
_calculate_streak_NoTodayTest(person) ==
    LET dates == StreakDates(person)
    IN  IF dates = {} THEN 0
        ELSE StreakLoop(dates, person, 1, DateOf(now), 1)

_calculate_streak(person) ==
    LET dates == StreakDates(person)
        today == DateOf(now)
    IN  IF dates = {} THEN 0
        ELSE IF (CHOOSE d \in dates : \A e \in dates : e <= d) # today THEN 0
        ELSE StreakLoop(dates, person, 1, today, 1)

\* sensor.py: the loop for i in range(1, 30) over current_date - i;
\* had_tasks_on_date: a chore of the assignee was last done on that date
RECURSIVE SensorStreakLoop(_, _, _, _)
SensorStreakLoop(dates, assignee, i, streak) ==
    IF i >= 30 THEN streak
    ELSE LET prev_date == DateOf(now) - i
             had_tasks_on_date ==
                 \E c \in DOMAIN chores :
                     /\ chores[c].assigned_to = assignee
                     /\ chores[c].last_done # NULL
                     /\ DateOf(chores[c].last_done) = prev_date
         IN  IF prev_date \in dates \/ ~had_tasks_on_date
             THEN SensorStreakLoop(dates, assignee, i + 1, streak + 1)
             ELSE streak

\* over the 30 latest distinct dates of the assignee's completions
SensorStreak(assignee) ==
    LET all == {DateOf(e.done_at) : e \in {h \in chore_history : h.done_by = assignee}}
        dates == {d \in all : Cardinality({e \in all : e > d}) < 30}
    IN  IF dates # {} /\ DateOf(now) \in dates
        THEN SensorStreakLoop(dates, assignee, 1, 1)
        ELSE 0

\* ---------------------------------------------------------------- Init
BaseRow ==
    [chore_id |-> "c1", name |-> <<"a">>, frequency_type |-> "Flexibel",
     frequency_days |-> 7, frequency_times |-> 1, weekday |-> -1, monthday |-> -1,
     active_days |-> NoMap, active_monthdays |-> NoMap,
     last_done |-> NULL, last_done_by |-> NoPerson,
     assigned_to |-> "A", alternate_with |-> "B", use_alternating |-> TRUE,
     has_subtasks |-> FALSE, subtasks_completion_type |-> "all",
     subtasks_period |-> "week", notify_when_due |-> TRUE]

\* the first instant of the behaviours of Spec
StartDay == DaysFromCivil(2024, 3, 30)

\* two chores: c1 alternates between A and B and has one subtask, c2 has no
\* subtasks and one of the alternation settings alts
InitOver(alts) ==
    /\ layer \in Layers
    /\ utc_offset \in (IF layer = "db" THEN {0, 1} ELSE {0})
    /\ now = Midnight(StartDay)
    /\ horizon = now + MaxClockSteps
    /\ \E policy \in {<<"all", "week">>, <<"any", "day">>}, alt \in alts :
          chores = [c \in ChoreIds |->
              IF c = "c1"
              THEN [BaseRow EXCEPT !.subtasks_completion_type = policy[1],
                                   !.subtasks_period = policy[2],
                                   !.has_subtasks = TRUE]
              ELSE [BaseRow EXCEPT !.chore_id = "c2", !.name = <<"b">>,
                                   !.frequency_type = "Wekelijks",
                                   !.assigned_to = "B",
                                   !.use_alternating = alt[1],
                                   !.alternate_with = alt[2],
                                   !.notify_when_due = FALSE]]
    /\ subtasks = {[id |-> 1, chore_id |-> "c1"]}
    /\ next_subtask_id = 2
    /\ chore_history = {}
    /\ subtask_completions = {}
    /\ notification_log = {}
    /\ result = NoResult
    /\ out = NoReading
    /\ calls = NoCalls

Init == InitOver({<<FALSE, "A">>})

\* ---------------------------------------------------------------- Next
\* time passes without a call
Tick ==
    /\ now < horizon
    /\ now' = now + 1
    /\ out' = NoReading
    /\ UNCHANGED <<layer, utc_offset, chores, chore_history, subtasks,
                   subtask_completions, notification_log, next_subtask_id, result, horizon,
                   calls>>

SubtaskIdArgs == 1..MaxSubtasks

Next ==
    \/ Tick
    \/ \E c \in ChoreIds, p \in Persons : db_mark_chore_done(c, p)
    \/ \E c \in ChoreIds, p \in Persons : database_mark_chore_done(c, p)
    \/ \E c \in ChoreIds : db_reset_chore(c)
    \/ \E c \in ChoreIds : database_reset_chore(c)
    \/ \E c \in ChoreIds : db_force_chore_due(c)
    \/ \E c \in ChoreIds : database_force_chore_due(c)
    \/ \E i \in SubtaskIdArgs, p \in Persons : db_complete_subtask(i, p)
    \/ \E i \in SubtaskIdArgs, p \in Persons : database_handle_complete_subtask(i, p)
    \/ \E c \in ChoreIds : add_subtask(c)
    \/ \E i \in SubtaskIdArgs : db_handle_delete_subtask(i)
    \/ \E i \in SubtaskIdArgs : database_handle_delete_subtask(i)
    \/ \E c \in ChoreIds : db_update_chore_completion_status(c)
    \/ \E c \in ChoreIds : database_update_chore_completion_status(c)

Spec == Init /\ [][Next]_vars

\* =====================================================================
\* The classifiers read over recurrence configurations and calendar dates
\* =====================================================================
FREQ_TYPES == {"Dagelijks", "Wekelijks", "Meerdere keren per week", "Maandelijks",
               "Meerdere keren per maand", "Per kwartaal", "Halfjaarlijks",
               "Jaarlijks", "Flexibel"}
Unrecognised == "Onbekend"

Workdays == [k \in {"mon", "tue", "wed", "thu", "fri", "sat", "sun"} |-> k \notin {"sat", "sun"}]
\* the active_days columns read: NULL, broken JSON, the workdays, no day, a
\* lone "sun", Sunday only, two days switched off, and {}
WeekdayColumns ==
    LET DayNames == {"mon", "tue", "wed", "thu", "fri", "sat", "sun"}
    IN  {NoMap, [kind |-> "bad", map |-> EmptyMap], JsonMap(Workdays),
         JsonMap([k \in DayNames |-> FALSE]), JsonMap("sun" :> TRUE),
         JsonMap([k \in DayNames |-> k = "sun"]),
         JsonMap("mon" :> FALSE @@ "tue" :> FALSE), JsonMap(EmptyMap)}

CalcBase ==
    [BaseRow EXCEPT !.frequency_type = "Wekelijks", !.has_subtasks = FALSE,
                    !.use_alternating = FALSE, !.alternate_with = ""]

\* the recurrence configurations read
CalcConfigs ==
    {[CalcBase EXCEPT !.frequency_type = "Dagelijks", !.active_days = m] : m \in WeekdayColumns}
    \cup {[CalcBase EXCEPT !.weekday = w] : w \in -1..6}
    \cup {[CalcBase EXCEPT !.frequency_type = "Meerdere keren per week", !.frequency_times = n] :
             n \in {1, 2, 3, 7}}
    \cup {[CalcBase EXCEPT !.frequency_type = "Meerdere keren per week", !.frequency_times = 2,
                           !.active_days = JsonMap(Workdays)]}
    \cup {[CalcBase EXCEPT !.frequency_type = "Maandelijks", !.monthday = m] :
             m \in {-1, 1, 2, 15, 27, 28, 29, 30, 31}}
    \cup {[CalcBase EXCEPT !.frequency_type = "Meerdere keren per maand", !.frequency_times = n] :
             n \in {1, 2, 4}}
    \cup {[CalcBase EXCEPT !.frequency_type = "Meerdere keren per maand", !.frequency_times = 2,
                           !.active_monthdays = m] :
             m \in {JsonMap(1 :> TRUE @@ 15 :> TRUE), JsonMap(31 :> TRUE), JsonMap(1 :> FALSE)}}
    \cup {[CalcBase EXCEPT !.frequency_type = ft] : ft \in {"Per kwartaal", "Halfjaarlijks", "Jaarlijks"}}
    \cup {[CalcBase EXCEPT !.frequency_type = "Flexibel", !.subtasks_period = sp] :
             sp \in {"day", "week", "month", "year"}}
    \cup {[CalcBase EXCEPT !.frequency_type = Unrecognised, !.frequency_days = n] : n \in {0, 1, 10}}
    \cup {[CalcBase EXCEPT !.frequency_type = ft, !.name = <<" ">>] : ft \in {"Dagelijks", Unrecognised}}
    \cup {[CalcBase EXCEPT !.name = <<>>]}

CalcChoreIds == {"c1"}
CalcFirstDay == DaysFromCivil(2024, 1, 1)

InitCalc ==
    /\ layer \in Layers
    /\ utc_offset = 0
    /\ \E today \in CalcFirstDay..(CalcFirstDay + CalcDays - 1), cfg \in CalcConfigs :
          /\ \E ld \in {NULL, Midnight(today), Midnight(today - CalcGap)} :
                /\ now = IF ld = Midnight(today) THEN ld + TicksPerDay - 1 ELSE Midnight(today)
                /\ chores = [c \in CalcChoreIds |->
                      [cfg EXCEPT !.last_done = ld,
                                  !.last_done_by = IF ld = NULL THEN NoPerson ELSE "A"]]
    /\ horizon = now + MaxCalcSteps
    /\ chore_history = {}
    /\ subtasks = {}
    /\ next_subtask_id = 1
    /\ subtask_completions = {}
    /\ notification_log = {}
    /\ result = NoResult
    /\ out = NoReading
    /\ calls = NoCalls

\* FrequencyCalculator read for one stored chore
classify(chore_id) ==
    /\ chore_id \in DOMAIN chores
    /\ out' = [NoReading EXCEPT
                  !.kind = "classify", !.chore_id = chore_id, !.status = "ok",
                  !.is_due_today = is_due_today(chores[chore_id], now),
                  !.is_overdue = is_overdue(chores[chore_id], now),
                  !.next_due = FC_calculate_next_due_date(chores[chore_id], now)]
    /\ UNCHANGED <<layer, utc_offset, now, chores, chore_history, subtasks,
                   subtask_completions, notification_log, next_subtask_id, result, horizon,
                   calls>>

\* ChoresOverviewSensor.async_update: an exception in get_data is logged and
\* the attributes are not replaced
async_update ==
    /\ out' = IF \E c \in DOMAIN chores :
                     /\ chores[c].last_done # NULL
                     /\ sensor_calculate_next_due_date(chores[c], now) < 0
              THEN [NoReading EXCEPT !.kind = "sensor", !.status = "error",
                                     !.next_due_date = SensorNextDueDates(chores, now)]
              ELSE [NoReading EXCEPT !.kind = "sensor", !.status = "ok",
                                     !.due_tasks = SensorDueTasks(chores, now),
                                     !.next_due_date = SensorNextDueDates(chores, now),
                                     !.streak = [a \in ActiveAssignees |-> SensorStreak(a)]]
    /\ UNCHANGED <<layer, utc_offset, now, chores, chore_history, subtasks,
                   subtask_completions, notification_log, next_subtask_id, result, horizon,
                   calls>>

NextCalc ==
    \/ Tick
    \/ \E c \in CalcChoreIds : classify(c)
    \/ async_update
    \/ \E c \in CalcChoreIds : db_force_chore_due(c)
    \/ \E c \in CalcChoreIds : database_force_chore_due(c)

SpecCalc == InitCalc /\ [][NextCalc]_vars

\* ------------- a chore never done before is marked done and read again
NextDone ==
    \/ Tick
    \/ \E c \in CalcChoreIds, p \in Persons : db_mark_chore_done(c, p)
    \/ \E c \in CalcChoreIds, p \in Persons : database_mark_chore_done(c, p)
    \/ \E c \in CalcChoreIds : classify(c)
    \/ async_update

InitDone ==
    /\ InitCalc
    /\ \A c \in CalcChoreIds : chores[c].last_done = NULL

SpecDone == InitDone /\ [][NextDone]_vars

\* ----------------------- the classifiers read while days pass, two weeks
\* of dates around the end of January 2024
DueDays == 14
MaxDueSteps == 4

InitDue ==
    /\ layer \in Layers
    /\ utc_offset = 0
    /\ \E today \in DaysFromCivil(2024, 1, 25)..(DaysFromCivil(2024, 1, 25) + DueDays - 1), cfg \in CalcConfigs :
          /\ \E ld \in {NULL, Midnight(today), Midnight(today - CalcGap)} :
                /\ now = IF ld = Midnight(today) THEN ld + TicksPerDay - 1 ELSE Midnight(today)
                /\ chores = [c \in CalcChoreIds |->
                      [cfg EXCEPT !.last_done = ld,
                                  !.last_done_by = IF ld = NULL THEN NoPerson ELSE "A"]]
    /\ horizon = now + MaxDueSteps
    /\ chore_history = {}
    /\ subtasks = {}
    /\ next_subtask_id = 1
    /\ subtask_completions = {}
    /\ notification_log = {}
    /\ result = NoResult
    /\ out = NoReading
    /\ calls = NoCalls

NextDue ==
    \/ Tick
    \/ \E c \in CalcChoreIds, p \in {"A"} : db_mark_chore_done(c, p)
    \/ \E c \in CalcChoreIds, p \in {"A"} : database_mark_chore_done(c, p)
    \/ \E c \in CalcChoreIds : classify(c)
    \/ async_update

SpecDue == InitDue /\ [][NextDue]_vars

\* serial completions only: mark_chore_done calls and the passage of time
NextSerial ==
    \/ Tick
    \/ \E c \in ChoreIds, p \in Persons : db_mark_chore_done(c, p)
    \/ \E c \in ChoreIds, p \in Persons : database_mark_chore_done(c, p)

SpecSerial == InitOver({<<TRUE, "">>, <<FALSE, "A">>}) /\ [][NextSerial]_vars

\* ------------------------------------------ concurrent mark_done calls
\* handle_mark_done hands mark_chore_done to the executor; the job reads the
\* clock first.  Nothing orders two jobs: each runs on its own connection.
mark_done_submit(k, chore_id, person) ==
    /\ calls[k].pc = "idle"
    /\ chore_id \in DOMAIN chores
    /\ now < horizon
    /\ now' = now + 1
    /\ out' = NoReading
    /\ calls' = [calls EXCEPT ![k] = [pc |-> "select", chore_id |-> chore_id,
                                       person |-> person, at |-> now,
                                       read |-> <<FALSE, "", "">>]]
    /\ UNCHANGED <<layer, utc_offset, chores, chore_history, subtasks,
                   subtask_completions, notification_log, next_subtask_id, result, horizon>>

\* SELECT use_alternating, assigned_to, alternate_with: outside a transaction
mark_done_select(k) ==
    /\ calls[k].pc = "select"
    /\ LET row == chores[calls[k].chore_id]
       IN  calls' = [calls EXCEPT ![k].pc = "write",
                                  ![k].read = <<row.use_alternating, row.assigned_to,
                                                row.alternate_with>>]
    /\ UNCHANGED <<layer, utc_offset, now, chores, chore_history, subtasks,
                   subtask_completions, notification_log, next_subtask_id, result, out,
                   horizon>>

\* the UPDATEs with the values read, the INSERT into chore_history (and in
\* database.py the subtask completions) and the commit: one transaction
mark_done_commit(k) ==
    /\ calls[k].pc = "write"
    /\ LET call == calls[k]
           c == call.chore_id
           swap == call.read[1] /\ call.read[3] # ""
       IN  /\ chores' = [chores EXCEPT
                  ![c].assigned_to = IF swap THEN call.read[3] ELSE @,
                  ![c].alternate_with = IF swap THEN call.read[2] ELSE @,
                  ![c].last_done = call.at,
                  ![c].last_done_by = call.person]
           /\ chore_history' = chore_history \cup
                  {[chore_id |-> c, done_by |-> call.person, done_at |-> call.at]}
           /\ subtask_completions' =
                  IF layer = "database" /\ chores[c].has_subtasks
                  THEN subtask_completions \cup
                       {[subtask_id |-> sid, done_by |-> call.person, done_at |-> call.at] :
                           sid \in SubtaskIdsOf(subtasks, c)}
                  ELSE subtask_completions
           /\ result' = [Ok("mark_chore_done", c, 0, call.person) EXCEPT !.at = call.at]
    /\ calls' = [calls EXCEPT ![k].pc = "done"]
    /\ UNCHANGED <<layer, utc_offset, now, subtasks, notification_log, next_subtask_id,
                   out, horizon>>

NextRace ==
    \/ Tick
    \/ \E k \in CallIds, c \in ChoreIds, p \in Persons : mark_done_submit(k, c, p)
    \/ \E k \in CallIds : mark_done_select(k)
    \/ \E k \in CallIds : mark_done_commit(k)

SpecRace == Init /\ [][NextRace]_vars

\* ------------------------------------------------- last_done as a text
\* the texts read: the three shapes written for the instants of ParseDays
\* days, with and without microseconds, and texts of no such shape
ParseDays == 60
ParseDates == CalcFirstDay..(CalcFirstDay + ParseDays - 1)
ParseTicks == 0..(TicksPerDay - 1)
Micro == <<".", "1", "2", "3", "4", "5", "6">>

ParseTexts ==
    LET NoDates == {YmdText(2024, 2, 30), YmdText(2023, 2, 29), YmdText(2024, 13, 1)}
    IN
    {isoformat(Midnight(d) + k) : d \in ParseDates, k \in ParseTicks}
    \cup {isoformat(Midnight(d) + k) \o Micro : d \in ParseDates, k \in ParseTicks}
    \cup {DateText(d) \o <<" ">> \o TimeText(k) : d \in ParseDates, k \in ParseTicks}
    \cup {DateText(d) : d \in ParseDates}
    \cup {DateText(d) \o <<"T", "a", "b", "c">> : d \in ParseDates}
    \cup {DateText(d) \o <<"T">> : d \in ParseDates}
    \cup {DateText(d) \o <<" ", "1", "2", ":", "0", "0">> : d \in ParseDates}
    \cup {isoformat(Midnight(d)) \o <<"Z">> : d \in ParseDates}
    \cup {n \o <<"T">> \o TimeText(0) : n \in NoDates}
    \cup {n \o <<" ">> \o TimeText(0) : n \in NoDates}
    \cup NoDates
    \cup {<<>>, <<"a", "b", "c">>, <<"T">>, <<" ">>, <<"a", " ", "b">>, <<"x", "T", " ", "1">>}

InitParse ==
    /\ layer \in Layers
    /\ utc_offset = 0
    /\ now = Midnight(CalcFirstDay + ParseDays + 5)
    /\ horizon = now + MaxCalcSteps
    /\ \E text \in ParseTexts, ft \in {"Dagelijks", "Jaarlijks"} :
          chores = [c \in CalcChoreIds |->
              [last_done_text |-> text] @@ [CalcBase EXCEPT !.frequency_type = ft]]
    /\ chore_history = {}
    /\ subtasks = {}
    /\ next_subtask_id = 1
    /\ subtask_completions = {}
    /\ notification_log = {}
    /\ result = NoResult
    /\ out = NoReading
    /\ calls = NoCalls

\* parse_date of the stored text
read_last_done(chore_id) ==
    /\ chore_id \in DOMAIN chores
    /\ LET r == parse_date(chores[chore_id].last_done_text, now)
       IN  out' = [NoReading EXCEPT
                      !.kind = "parse", !.chore_id = chore_id,
                      !.status = IF r = ValueError THEN "ValueError" ELSE "ok",
                      !.parsed = IF r = ValueError THEN NULL ELSE r]
    /\ UNCHANGED <<layer, utc_offset, now, chores, chore_history, subtasks,
                   subtask_completions, notification_log, next_subtask_id, result, horizon,
                   calls>>

\* FrequencyCalculator read of a chore whose last_done is the stored text:
\* an empty text counts as never done, any other goes through parse_date
classify_text(chore_id) ==
    /\ chore_id \in DOMAIN chores
    /\ LET text == chores[chore_id].last_done_text
           r == parse_date(text, now)
           seen == [chores[chore_id] EXCEPT !.last_done = IF text = <<>> THEN NULL ELSE r]
       IN  out' = IF text # <<>> /\ r = ValueError
                  THEN [NoReading EXCEPT !.kind = "classify", !.chore_id = chore_id,
                                         !.status = "ValueError"]
                  ELSE [NoReading EXCEPT
                           !.kind = "classify", !.chore_id = chore_id, !.status = "ok",
                           !.is_due_today = is_due_today(seen, now),
                           !.is_overdue = is_overdue(seen, now),
                           !.next_due = FC_calculate_next_due_date(seen, now)]
    /\ UNCHANGED <<layer, utc_offset, now, chores, chore_history, subtasks,
                   subtask_completions, notification_log, next_subtask_id, result, horizon,
                   calls>>

NextParse ==
    \/ Tick
    \/ \E c \in CalcChoreIds : read_last_done(c)
    \/ \E c \in CalcChoreIds : classify_text(c)

SpecParse == InitParse /\ [][NextParse]_vars

\* ------------------------------------------- calls with any id argument
\* the ids a caller can pass: the stored chores and one id that was never stored
ChoreIdArgs == ChoreIds \cup {"c0"}

NextArgs ==
    \/ Tick
    \/ \E c \in ChoreIdArgs, p \in Persons : db_mark_chore_done(c, p)
    \/ \E c \in ChoreIdArgs, p \in Persons : database_mark_chore_done(c, p)
    \/ \E i \in SubtaskIdArgs, p \in Persons : db_complete_subtask(i, p)
    \/ \E i \in SubtaskIdArgs, p \in Persons : database_handle_complete_subtask(i, p)
    \/ \E c \in ChoreIdArgs : db_update_chore_completion_status(c)
    \/ \E c \in ChoreIdArgs : database_update_chore_completion_status(c)

SpecArgs == Init /\ [][NextArgs]_vars

\* ------------------------------------------------------ add_chore_to_db
\* the service payload: a map from field names to values; subtasks is the
\* list of subtask names taken out of it, not given when the key is absent
ListOf(names) == [given |-> TRUE, names |-> names]

IdText(chore_id) ==
    CASE chore_id = "c0" -> <<"c", "0">>
      [] chore_id = "c1" -> <<"c", "1">>
      [] chore_id = "c2" -> <<"c", "2">>

\* the columns of a row inserted with nothing but its id: the column defaults
ColumnDefaults(chore_id) ==
    [chore_id |-> chore_id, name |-> IdText(chore_id), frequency_type |-> "Wekelijks",
     frequency_days |-> 7, frequency_times |-> 1, weekday |-> -1, monthday |-> -1,
     active_days |-> NoMap, active_monthdays |-> NoMap,
     last_done |-> NULL, last_done_by |-> NoPerson,
     assigned_to |-> "Wie kan", alternate_with |-> "", use_alternating |-> FALSE,
     has_subtasks |-> FALSE, subtasks_completion_type |-> "all",
     subtasks_period |-> "week", notify_when_due |-> FALSE]

\* _process_chore_data: every listed field is computed, from the payload or
\* from its default; the two JSON columns only when the payload names them
_process_chore_data(row, chore_data) ==
    [row EXCEPT
        !.name = MapGet(chore_data, "name", IdText(row.chore_id)),
        !.frequency_type = MapGet(chore_data, "frequency_type", "Wekelijks"),
        !.frequency_days = MapGet(chore_data, "frequency_days", 7),
        !.frequency_times = MapGet(chore_data, "frequency_times", 1),
        !.assigned_to = MapGet(chore_data, "assigned_to", "Wie kan"),
        !.alternate_with = MapGet(chore_data, "alternate_with", ""),
        !.use_alternating = MapGet(chore_data, "use_alternating", FALSE),
        !.notify_when_due = MapGet(chore_data, "notify_when_due", FALSE),
        !.weekday = MapGet(chore_data, "weekday", -1),
        !.monthday = MapGet(chore_data, "monthday", -1),
        !.has_subtasks = MapGet(chore_data, "has_subtasks", FALSE),
        !.subtasks_completion_type = MapGet(chore_data, "subtasks_completion_type", "all"),
        !.subtasks_period = MapGet(chore_data, "subtasks_period", "week"),
        !.active_days = MapGet(chore_data, "active_days", @),
        !.active_monthdays = MapGet(chore_data, "active_monthdays", @)]

\* the named entries of the list, in order
NamedSubtasks(subtask_list) ==
    Cardinality({i \in DOMAIN subtask_list.names : subtask_list.names[i] # ""})

\* _update_chore_subtasks: the chore's rows are deleted and one row is
\* inserted per named entry
ReplacedSubtasks(chore_id, subtask_list) ==
    IF ~subtask_list.given THEN subtasks
    ELSE {s \in subtasks : s.chore_id # chore_id}
         \cup {[id |-> next_subtask_id + k, chore_id |-> chore_id] :
                  k \in 0..(NamedSubtasks(subtask_list) - 1)}

\* db/chores.py add_chore_to_db
db_add_chore_to_db(chore_id, chore_data, subtask_list) ==
    /\ Call("db")
    /\ next_subtask_id + NamedSubtasks(subtask_list) <= MaxSubtasks + 1
    /\ LET existing_chore == IF chore_id \in DOMAIN chores THEN chores[chore_id]
                             ELSE ColumnDefaults(chore_id)
       IN  chores' = (chore_id :> _process_chore_data(existing_chore, chore_data)) @@ chores
    /\ subtasks' = ReplacedSubtasks(chore_id, subtask_list)
    /\ next_subtask_id' = next_subtask_id + NamedSubtasks(subtask_list)
    /\ result' = Ok("add_chore", chore_id, 0, NoPerson)
    /\ UNCHANGED <<chore_history, subtask_completions, notification_log>>

\* database.py add_chore_to_db: only the payload's fields are written; an
\* update with no field is the statement "UPDATE chores SET  WHERE id = ?",
\* which SQLite rejects before the subtasks are handled
database_add_chore_to_db(chore_id, chore_data, subtask_list) ==
    /\ Call("database")
    /\ next_subtask_id + NamedSubtasks(subtask_list) <= MaxSubtasks + 1
    /\ IF chore_id \in DOMAIN chores /\ DOMAIN chore_data = {}
       THEN /\ result' = Failed("add_chore", chore_id, 0, NoPerson,
                                "OperationalError: syntax error")
            /\ UNCHANGED <<chores, subtasks, next_subtask_id>>
       ELSE /\ LET existing_chore == IF chore_id \in DOMAIN chores THEN chores[chore_id]
                                     ELSE ColumnDefaults(chore_id)
               IN  chores' = (chore_id :>
                                 [f \in DOMAIN existing_chore |->
                                     MapGet(chore_data, f, existing_chore[f])]) @@ chores
            /\ subtasks' = ReplacedSubtasks(chore_id, subtask_list)
            /\ next_subtask_id' = next_subtask_id + NamedSubtasks(subtask_list)
            /\ result' = Ok("add_chore", chore_id, 0, NoPerson)
    /\ UNCHANGED <<chore_history, subtask_completions, notification_log>>

\* the payloads and subtask lists sent
Payloads == {EmptyMap, "has_subtasks" :> TRUE, "has_subtasks" :> FALSE,
             "frequency_days" :> 0}
SubtaskLists == {[given |-> FALSE, names |-> <<>>], ListOf(<<>>), ListOf(<<"">>), ListOf(<<"x">>), ListOf(<<"x", "y">>)}

NextEdit ==
    \/ Tick
    \/ \E c \in ChoreIdArgs, d \in Payloads, l \in SubtaskLists : db_add_chore_to_db(c, d, l)
    \/ \E c \in ChoreIdArgs, d \in Payloads, l \in SubtaskLists :
          database_add_chore_to_db(c, d, l)
    \/ \E c \in ChoreIdArgs : add_subtask(c)
    \/ \E i \in SubtaskIdArgs : db_handle_delete_subtask(i)
    \/ \E i \in SubtaskIdArgs : database_handle_delete_subtask(i)

SpecEdit == Init /\ [][NextEdit]_vars

\* ------------------------------------------------------- the streak view
\* A has completed c1 on the days today - k, k in a pattern; c2 was never done
\* or was done by B some days ago; today is Wednesday 2024-04-03
MaxStreakSteps == 2
StreakBack == 33
StreakToday == DaysFromCivil(2024, 4, 3)

InitStreak ==
    /\ layer \in Layers
    /\ utc_offset \in (IF layer = "db" THEN {0, 1} ELSE {0})
    /\ now = Midnight(StreakToday)
    /\ horizon = now + MaxStreakSteps
    /\ \E S \in {{}} \cup {0..b : b \in 0..StreakBack} \cup {1..b : b \in 1..StreakBack}
                   \cup {{0} \cup (2..b) : b \in 2..StreakBack}
                   \cup {{0, 2, 3, 5}, {0, 3}, {0, 31}},
          a1 \in Persons, a2 \in Persons, k2 \in {NULL, 1, 3} :
          LET at(k) == Midnight(StreakToday - k)
              latest == CHOOSE k \in S : \A j \in S : k <= j
          IN  /\ chores = [c \in ChoreIds |->
                    IF c = "c1"
                    THEN [BaseRow EXCEPT !.assigned_to = a1, !.use_alternating = FALSE,
                                         !.alternate_with = "",
                                         !.last_done = IF S = {} THEN NULL ELSE at(latest),
                                         !.last_done_by = IF S = {} THEN NoPerson ELSE "A"]
                    ELSE [BaseRow EXCEPT !.chore_id = "c2", !.name = <<"b">>,
                                         !.frequency_type = "Wekelijks",
                                         !.assigned_to = a2, !.use_alternating = FALSE,
                                         !.alternate_with = "",
                                         !.last_done = IF k2 = NULL THEN NULL ELSE at(k2),
                                         !.last_done_by = IF k2 = NULL THEN NoPerson ELSE "B"]]
              /\ chore_history =
                    {[chore_id |-> "c1", done_by |-> "A", done_at |-> at(k)] : k \in S}
                    \cup (IF k2 = NULL THEN {}
                          ELSE {[chore_id |-> "c2", done_by |-> "B", done_at |-> at(k2)]})
    /\ subtasks = {}
    /\ next_subtask_id = 1
    /\ subtask_completions = {}
    /\ notification_log = {}
    /\ result = NoResult
    /\ out = NoReading
    /\ calls = NoCalls

\* db/history.py get_streaks: _calculate_streak of every active assignee
get_streaks ==
    /\ layer = "db"
    /\ out' = [NoReading EXCEPT !.kind = "streaks", !.status = "ok",
                                !.streak = [a \in ActiveAssignees |-> _calculate_streak(a)]]
    /\ UNCHANGED <<layer, utc_offset, now, chores, chore_history, subtasks,
                   subtask_completions, notification_log, next_subtask_id, result, horizon,
                   calls>>

NextStreak ==
    \/ Tick
    \/ \E c \in ChoreIds, p \in Persons : db_mark_chore_done(c, p)
    \/ \E c \in ChoreIds, p \in Persons : database_mark_chore_done(c, p)
    \/ get_streaks
    \/ async_update

SpecStreak == InitStreak /\ [][NextStreak]_vars

\* --------------------------------- aggregation across period boundaries
\* Sunday 31 March 2024: the next day starts a day, a week and a month

\* c1 has subtask 1; subtask 2 belongs to c1 or to c2
InitCount ==
    /\ layer \in Layers
    /\ utc_offset = 0
    /\ now = Midnight(DaysFromCivil(2024, 3, 31))
    /\ horizon = now + MaxClockSteps
    /\ \E policy \in {"all", "any"} \X {"day", "week", "month"}, second \in ChoreIds :
          /\ chores = [c \in ChoreIds |->
                IF c = "c1"
                THEN [BaseRow EXCEPT !.subtasks_completion_type = policy[1],
                                     !.subtasks_period = policy[2],
                                     !.has_subtasks = TRUE]
                ELSE [BaseRow EXCEPT !.chore_id = "c2", !.name = <<"b">>,
                                     !.assigned_to = "B",
                                     !.subtasks_completion_type = "any",
                                     !.subtasks_period = "day",
                                     !.has_subtasks = (second = "c2")]]
          /\ subtasks = {[id |-> 1, chore_id |-> "c1"], [id |-> 2, chore_id |-> second]}
    /\ next_subtask_id = 3
    /\ chore_history = {}
    /\ subtask_completions = {}
    /\ notification_log = {}
    /\ result = NoResult
    /\ out = NoReading
    /\ calls = NoCalls

NextCount ==
    \/ Tick
    \/ \E i \in SubtaskIdArgs, p \in Persons : db_complete_subtask(i, p)
    \/ \E i \in SubtaskIdArgs, p \in Persons : database_handle_complete_subtask(i, p)
    \/ \E c \in ChoreIds : db_update_chore_completion_status(c)
    \/ \E c \in ChoreIds : database_update_chore_completion_status(c)

SpecCount == InitCount /\ [][NextCount]_vars

\* --------------------- completions and resets only, two subtasks under c1
NextProj ==
    \/ Tick
    \/ \E c \in ChoreIds, p \in Persons : db_mark_chore_done(c, p)
    \/ \E c \in ChoreIds, p \in Persons : database_mark_chore_done(c, p)
    \/ \E i \in SubtaskIdArgs, p \in Persons : db_complete_subtask(i, p)
    \/ \E i \in SubtaskIdArgs, p \in Persons : database_handle_complete_subtask(i, p)
    \/ \E c \in ChoreIds : db_reset_chore(c)
    \/ \E c \in ChoreIds : database_reset_chore(c)

InitProj ==
    /\ InitCount
    /\ <<chores["c1"].subtasks_completion_type, chores["c1"].subtasks_period>>
           \in {<<"all", "week">>, <<"any", "day">>}
    /\ SubtaskIdsOf(subtasks, "c1") = {1, 2}

SpecProj == InitProj /\ [][NextProj]_vars

\* -------------------------------------------------- force_due service
\* table assignees, column ha_user_id: A is linked to a Home Assistant
\* user, B is not
NoUser == ""

\* SELECT ha_user_id FROM assignees WHERE name = ?
get_ha_user_id_for_assignee(assignee_name) ==
    LET AssigneeUsers == [a \in ActiveAssignees |-> IF a = "A" THEN "user_a" ELSE NoUser]
    IN  IF assignee_name \in DOMAIN AssigneeUsers THEN AssigneeUsers[assignee_name]
        ELSE NoUser

\* db/notifications.py _is_task_due_today: whole days since last_done
\* against a fixed number of days per frequency type
_is_task_due_today(row) ==
    LET ft == row.frequency_type
        required_days == CASE ft = "Dagelijks" -> 1
                           [] ft = "Wekelijks" -> 7
                           [] ft = "Maandelijks" -> 30
                           [] ft = "Per kwartaal" -> 90
                           [] ft = "Halfjaarlijks" -> 180
                           [] ft = "Jaarlijks" -> 365
                           [] OTHER -> row.frequency_days
    IN  \/ row.last_done = NULL
        \/ (now - row.last_done) \div TicksPerDay >= required_days

\* db/notifications.py get_pending_notifications over the tables ch and log:
\* the chores with notify_when_due whose assignee has a ha_user_id, with no
\* notification_log row of SQLite's today, not done on SQLite's today, and
\* due by _is_task_due_today
get_pending_notifications(ch, log) ==
    {c \in DOMAIN ch :
        /\ ch[c].notify_when_due
        /\ get_ha_user_id_for_assignee(ch[c].assigned_to) # NoUser
        /\ ~\E nl \in log : nl.chore_id = c /\ DateOf(nl.sent_at) = SqlDateNow
        /\ (ch[c].last_done = NULL \/ DateOf(ch[c].last_done) # SqlDateNow)
        /\ _is_task_due_today(ch[c])}

\* one notification to the assignee's user, none when the assignee has no user
DirectNotification(assigned_to, title, chore_ids) ==
    LET ha_user_id == get_ha_user_id_for_assignee(assigned_to)
    IN  IF ha_user_id = NoUser THEN {}
        ELSE {[ha_user_id |-> ha_user_id, title |-> title, chore_ids |-> chore_ids]}

\* the outcome of a force_due service call: the notifications it sent
ForceDueResult(base, notify, has_message, notified) ==
    [notify |-> notify, has_message |-> has_message, notified |-> notified] @@ base

\* handle_force_due with _handle_force_due_notification: force_chore_due
\* commits the shifted last_done and its own notification_log row, then a
\* custom message goes to the assignee's user, a chore with notify_when_due
\* runs the notification check, and any other chore gets a notification that
\* names it. check_imports is whether the import at the head of
\* async_check_due_notifications succeeds.
HandleForceDue(chore_id, notify, has_message, shift_days, check_imports) ==
    /\ UNCHANGED <<chore_history, subtasks, subtask_completions, next_subtask_id>>
    /\ IF chore_id \notin DOMAIN chores
       THEN /\ result' = ForceDueResult(
                   Failed("handle_force_due", chore_id, 0, NoPerson, "not found"),
                   notify, has_message, {})
            /\ UNCHANGED <<chores, notification_log>>
       ELSE LET row == chores[chore_id]
                forced == [chores EXCEPT ![chore_id] = ForcedRow(@, shift_days)]
                logged == IF row.notify_when_due
                          THEN notification_log \cup {[chore_id |-> chore_id, sent_at |-> now]}
                          ELSE notification_log
                pending == get_pending_notifications(forced, logged)
                user_of(c) == get_ha_user_id_for_assignee(forced[c].assigned_to)
                \* async_check_due_notifications: one summary per user
                summaries ==
                    {[ha_user_id |-> u, title |-> "Taak op planning voor vandaag",
                      chore_ids |-> {c \in pending : user_of(c) = u}] :
                        u \in {user_of(c) : c \in pending}}
                \* mark_notifications_sent
                marked == logged \cup {[chore_id |-> c, sent_at |-> now] : c \in pending}
                ok == Ok("handle_force_due", chore_id, 0, NoPerson)
            IN  /\ chores' = forced
                /\ CASE ~notify ->
                          /\ notification_log' = logged
                          /\ result' = ForceDueResult(ok, notify, has_message, {})
                     [] notify /\ has_message ->
                          /\ notification_log' = logged
                          /\ result' = ForceDueResult(ok, notify, has_message,
                                 DirectNotification(row.assigned_to, "Taak toegevoegd", {}))
                     [] notify /\ ~has_message /\ row.notify_when_due /\ ~check_imports ->
                          /\ notification_log' = logged
                          /\ result' = ForceDueResult(
                                 Failed("handle_force_due", chore_id, 0, NoPerson,
                                        "Unexpected error: ImportError"),
                                 notify, has_message, {})
                     [] notify /\ ~has_message /\ row.notify_when_due /\ check_imports ->
                          /\ notification_log' = marked
                          /\ result' = ForceDueResult(ok, notify, has_message,
                                 summaries)
                     [] OTHER ->
                          /\ notification_log' = logged
                          /\ result' = ForceDueResult(ok, notify, has_message,
                                 DirectNotification(row.assigned_to, "Taak op planning",
                                                    {chore_id}))

\* the handler over the db/ package, whose notifications module holds
\* get_pending_notifications and mark_notifications_sent
db_handle_force_due(chore_id, notify, has_message) ==
    /\ Call("db")
    /\ HandleForceDue(chore_id, notify, has_message,
                      IF chore_id \in DOMAIN chores
                      THEN _calculate_frequency_days(chores[chore_id]) ELSE 0,
                      TRUE)

\* the handler over database.py, which defines neither
\* get_pending_notifications nor mark_notifications_sent
database_handle_force_due(chore_id, notify, has_message) ==
    /\ Call("database")
    /\ HandleForceDue(chore_id, notify, has_message,
                      IF chore_id \in DOMAIN chores
                      THEN database_shift_days(chores[chore_id]) ELSE 0,
                      FALSE)

\* c1 of any of three frequency types, with or without notify_when_due,
\* assigned to the linked A or the unlinked B, never done or done yesterday;
\* c2 a weekly chore of A with notify_when_due that was never done
InitNotify ==
    /\ layer \in Layers
    /\ utc_offset \in (IF layer = "db" THEN {0, 1} ELSE {0})
    /\ now = Midnight(StartDay)
    /\ horizon = now + MaxClockSteps
    /\ \E ft \in {"Dagelijks", "Wekelijks", "Flexibel"}, nwd \in BOOLEAN, a \in ActiveAssignees,
          ld \in {NULL, Midnight(StartDay - 1)} :
          chores = [c \in ChoreIds |->
              IF c = "c1"
              THEN [BaseRow EXCEPT !.frequency_type = ft, !.notify_when_due = nwd,
                                   !.assigned_to = a, !.use_alternating = FALSE,
                                   !.last_done = ld]
              ELSE [BaseRow EXCEPT !.chore_id = "c2", !.name = <<"b">>,
                                   !.frequency_type = "Wekelijks",
                                   !.use_alternating = FALSE]]
    /\ subtasks = {}
    /\ next_subtask_id = 1
    /\ chore_history = {}
    /\ subtask_completions = {}
    /\ notification_log = {}
    /\ result = ForceDueResult(NoResult, FALSE, FALSE, {})
    /\ out = NoReading
    /\ calls = NoCalls

NextNotify ==
    \/ Tick
    \/ \E c \in ChoreIdArgs, n \in BOOLEAN, m \in BOOLEAN : db_handle_force_due(c, n, m)
    \/ \E c \in ChoreIdArgs, n \in BOOLEAN, m \in BOOLEAN : database_handle_force_due(c, n, m)

SpecNotify == InitNotify /\ [][NextNotify]_vars

\* =====================================================================
\* Properties
\* =====================================================================

\* C3: in every state reachable by mark_chore_done, complete_subtask (with
\* the aggregation), reset_chore and force_chore_due, a chore's last_done_by
\* is set exactly when its last_done is set.
C3_LastDoneByIffLastDone ==
    \A c \in DOMAIN chores :
        (chores[c].last_done_by # NoPerson) <=> (chores[c].last_done # NULL)

\* C4: mark_chore_done(c, p) on a stored chore adds exactly the history entry
\* (c, p, now), sets c.last_done = now and c.last_done_by = p, changes no
\* other chore and removes or modifies no earlier history entry.
C4_MarkChoreDoneEffect ==
    [][\A c \in ChoreIds, p \in Persons :
          (db_mark_chore_done(c, p) \/ database_mark_chore_done(c, p)) =>
              /\ result'.ok
              /\ chore_history \subseteq chore_history'
              /\ chore_history' \ chore_history =
                     {[chore_id |-> c, done_by |-> p, done_at |-> now]}
              /\ chores'[c].last_done = now
              /\ chores'[c].last_done_by = p
              /\ \A d \in DOMAIN chores \ {c} : chores'[d] = chores[d]]_vars

\* a completion of c2 was just recorded next to earlier entries of both chores
C4_Witness ==
    /\ result.op = "mark_chore_done" /\ result.ok /\ result.chore_id = "c2"
    /\ chores["c2"].last_done = result.at
    /\ chores["c2"].last_done_by = result.person
    /\ \E h \in chore_history : h.chore_id = "c1" /\ h.done_at < result.at
    /\ \E h \in chore_history : h.chore_id = "c2" /\ h.done_at < result.at

\* C5: for a chore with subtasks and policy 'all' having n subtasks, a
\* complete_subtask call after which fewer than n distinct subtasks are
\* completed in the period leaves last_done and last_done_by unchanged; the call
\* that brings the count to n sets last_done to its instant and last_done_by
\* to its person.
C5_AllPolicyAggregation ==
    [][\A i \in SubtaskIdArgs, p \in Persons :
          ( /\ db_complete_subtask(i, p) \/ database_handle_complete_subtask(i, p)
            /\ SubtaskExists(i)
            /\ result'.ok ) =>
              LET c == SubtaskRow(i).chore_id
                  n == Cardinality(SubtaskIdsOf(subtasks, c))
                  before == CompletedCount(subtasks, subtask_completions, c)
                  after == CompletedCount(subtasks, subtask_completions', c)
              IN  (chores[c].has_subtasks /\ chores[c].subtasks_completion_type = "all") =>
                      /\ (after < n) =>
                             /\ chores'[c].last_done = chores[c].last_done
                             /\ chores'[c].last_done_by = chores[c].last_done_by
                      /\ (before < n /\ after = n) =>
                             /\ chores'[c].last_done = now
                             /\ chores'[c].last_done_by = p]_vars

\* the second of two subtasks of an 'all' chore was just completed, after the
\* first one in the same period, and the chore took that instant and person
C5_Witness ==
    /\ result.op = "complete_subtask" /\ result.ok
    /\ LET c == result.chore_id
       IN  /\ chores[c].subtasks_completion_type = "all"
           /\ Cardinality(SubtaskIdsOf(subtasks, c)) = 2
           /\ \E r \in subtask_completions :
                  /\ r.subtask_id \in SubtaskIdsOf(subtasks, c) \ {result.subtask_id}
                  /\ r.done_at < result.at
                  /\ r.done_by # result.person
           /\ chores[c].last_done = result.at
           /\ chores[c].last_done_by = result.person

\* C6: an update_chore_completion_status call never leaves a chore's
\* last_done lower than it was before the call.
C6_AggregationMonotonic ==
    [][\A c \in ChoreIds :
          (db_update_chore_completion_status(c)
             \/ database_update_chore_completion_status(c)) =>
              chores'[c].last_done >= chores[c].last_done]_vars

\* C7: reset_chore(c) on a stored chore succeeds, clears last_done and
\* last_done_by, deletes exactly today's history entries of c (and today's
\* completions of c's subtasks when c has subtasks) and keeps everything else.
C7_ResetChoreEffect ==
    [][\A c \in ChoreIds :
          (db_reset_chore(c) \/ database_reset_chore(c)) =>
              /\ result'.ok
              /\ chores'[c].last_done = NULL
              /\ chores'[c].last_done_by = NoPerson
              /\ chore_history' = {h \in chore_history :
                     ~(h.chore_id = c /\ DateOf(h.done_at) = DateOf(now))}
              /\ subtask_completions' =
                     IF chores[c].has_subtasks
                     THEN {r \in subtask_completions :
                              ~(r.subtask_id \in SubtaskIdsOf(subtasks, c)
                                /\ DateOf(r.done_at) = DateOf(now))}
                     ELSE subtask_completions]_vars

\* C8: mark_chore_done swaps assigned_to and alternate_with when
\* use_alternating is true and alternate_with is non-empty, and leaves both
\* unchanged otherwise; so after n serial completions the pair is the swapped
\* original when n is odd and the original when n is even.
C8_SwapStep ==
    [][\A c \in ChoreIds, p \in Persons :
          (db_mark_chore_done(c, p) \/ database_mark_chore_done(c, p)) =>
              IF chores[c].use_alternating /\ chores[c].alternate_with # ""
              THEN /\ chores'[c].assigned_to = chores[c].alternate_with
                   /\ chores'[c].alternate_with = chores[c].assigned_to
              ELSE /\ chores'[c].assigned_to = chores[c].assigned_to
                   /\ chores'[c].alternate_with = chores[c].alternate_with]_vars

\* the pair a chore was created with (Init)
C8_OriginalPair(c) ==
    IF c = "c1" THEN <<"A", "B">>
    ELSE IF chores[c].use_alternating THEN <<"B", "">> ELSE <<"B", "A">>

C8_Parity ==
    \A c \in ChoreIds :
        LET n == Cardinality(HistoryOf(chore_history, c))
            orig == C8_OriginalPair(c)
            pair == <<chores[c].assigned_to, chores[c].alternate_with>>
        IN  IF chores[c].use_alternating /\ orig[2] # "" /\ n % 2 = 1
            THEN pair = <<orig[2], orig[1]>>
            ELSE pair = orig

C8_Alternation == C8_SwapStep /\ []C8_Parity

\* three serial completions of the alternating chore c1 and one of c2
C8_Witness ==
    /\ Cardinality(HistoryOf(chore_history, "c1")) = 3
    /\ chores["c1"].assigned_to = "B" /\ chores["c1"].alternate_with = "A"
    /\ Cardinality(HistoryOf(chore_history, "c2")) = 1
    /\ chores["c2"].assigned_to = "B"
\* the chore a classify reading is of
ReadChore == chores[out.chore_id]

\* the sensor counts every never-completed chore of an active assignee as due
SensorCountsNeverDone ==
    (out.kind = "sensor" /\ out.status = "ok") =>
        \A c \in DOMAIN chores :
            (chores[c].last_done = NULL /\ chores[c].assigned_to \in ActiveAssignees) =>
                c \in out.due_tasks[chores[c].assigned_to]

\* C1: for every chore whose last_done is null, whatever its frequency_type,
\* is_due_today is true and is_overdue is true.
C1_NeverDoneIsDue ==
    /\ (out.kind = "classify" /\ ReadChore.last_done = NULL) =>
           (out.is_due_today /\ out.is_overdue)
    /\ SensorCountsNeverDone

\* C1, amended: for every chore whose last_done is null and whose name is not
\* blank, whatever its frequency_type, is_due_today is true and is_overdue is
\* true; is_overdue is true for a blank name too, and the sensor counts every
\* never-completed chore as due.
C1_NeverDoneIsDueUnlessBlank ==
    /\ (out.kind = "classify" /\ ReadChore.last_done = NULL) =>
           /\ out.is_overdue
           /\ (ReadChore.chore_id # "" /\ Strip(ReadChore.name) # <<>>) => out.is_due_today
    /\ SensorCountsNeverDone

\* a never-completed chore of an unrecognised frequency type was classified
C1_Witness ==
    /\ out.kind = "classify"
    /\ ReadChore.last_done = NULL
    /\ ReadChore.frequency_type \notin FREQ_TYPES
    /\ Strip(ReadChore.name) # <<>>
    /\ out.is_due_today /\ out.is_overdue

\* C2: after force_chore_due commits on a stored chore, the classifier read on
\* that same day has calculate_next_due_date(chore) <= today, for every
\* frequency type and recurrence configuration (frequency_times >= 1,
\* frequency_days >= 1) and every date.
C2_ForcedIsDueToday ==
    ( /\ result.op = "force_chore_due" /\ result.ok
      /\ out.kind = "classify" /\ out.chore_id = result.chore_id
      /\ DateOf(now) = DateOf(result.at)
      /\ ReadChore.frequency_times >= 1 /\ ReadChore.frequency_days >= 1 ) =>
        out.next_due <= DateOf(now)

\* C9: a chore whose last_done falls on today's date is not counted in its
\* assignee's due tasks, whatever its frequency type, even when
\* calculate_next_due_date(chore) <= today.
C9_DoneTodayNotDue ==
    (out.kind = "sensor" /\ out.status = "ok") =>
        \A c \in DOMAIN chores :
            (chores[c].last_done # NULL /\ DateOf(chores[c].last_done) = DateOf(now)) =>
                \A a \in ActiveAssignees : c \notin out.due_tasks[a]

\* the sensor read a chore of an active assignee completed today whose next
\* due date is today or earlier, and did not count it
C9_Witness ==
    /\ out.kind = "sensor" /\ out.status = "ok"
    /\ \E c \in DOMAIN chores :
          /\ chores[c].last_done # NULL
          /\ DateOf(chores[c].last_done) = DateOf(now)
          /\ chores[c].assigned_to \in ActiveAssignees
          /\ sensor_calculate_next_due_date(chores[c], now) <= DateOf(now)
          /\ c \notin out.due_tasks[chores[c].assigned_to]

\* day d is the occurrence of monthday m in its month: day m, or the month's
\* last day when the month is shorter
C10_IsOccurrence(m, d) ==
    LET a == CivilFromDays(d)
    IN  a.day = Min(m, DaysInMonth(a.year, a.month))

C10_NextOccurrence(m, d0) ==
    CHOOSE d \in (d0 + 1)..(d0 + 62) :
        /\ C10_IsOccurrence(m, d)
        /\ \A e \in (d0 + 1)..(d - 1) : ~C10_IsOccurrence(m, e)

\* C10: for a Monthly chore with monthday m in 1..31, calculate_next_due_date
\* is the next occurrence of day m strictly after date(last_done), clamped to
\* the length of its month; it is never equal to or earlier than date(last_done).
C10_MonthlyNextOccurrence ==
    ( /\ out.kind = "classify"
      /\ ReadChore.frequency_type = "Maandelijks"
      /\ ReadChore.monthday \in 1..31
      /\ ReadChore.last_done # NULL ) =>
        /\ out.next_due = C10_NextOccurrence(ReadChore.monthday, DateOf(ReadChore.last_done))
        /\ out.next_due > DateOf(ReadChore.last_done)

\* ---------------------------------------------------------------- C11
\* r is the Weekly answer for chore ch: with weekday w in 0..6 the one date
\* on weekday w that lies 1 to 7 days after last_done (last_done + 7 when
\* last_done is itself on weekday w), with weekday < 0 last_done + 7
C11_WeeklyAnswer(ch, r) ==
    LET d == DateOf(ch.last_done)
        w == ch.weekday
    IN  /\ w < 0 => r = d + 7
        /\ w \in 0..6 =>
              /\ Weekday(r) = w
              /\ r - d \in 1..7
              /\ \A q \in (d + 1)..(d + 7) : Weekday(q) = w => q = r
              /\ Weekday(d) = w => r = d + 7

C11_IsWeekly(ch) == ch.frequency_type = "Wekelijks" /\ ch.last_done # NULL

\* C11: for a Weekly chore with a last_done, FrequencyCalculator's
\* calculate_next_due_date and the sensor's both return the next date on the
\* chore's weekday strictly after last_done and at most 7 days later; a
\* last_done on that weekday gives last_done + 7; weekday < 0 gives last_done + 7
C11_WeeklyNextOccurrence ==
    /\ (out.kind = "classify" /\ C11_IsWeekly(ReadChore))
          => C11_WeeklyAnswer(ReadChore, out.next_due)
    /\ out.kind = "sensor" =>
          \A c \in DOMAIN out.next_due_date :
              C11_IsWeekly(chores[c]) => C11_WeeklyAnswer(chores[c], out.next_due_date[c])

\* a Weekly chore last done on its own weekday was read and got last_done + 7
C11_Witness ==
    /\ out.kind = "classify"
    /\ C11_IsWeekly(ReadChore)
    /\ ReadChore.weekday = Weekday(DateOf(ReadChore.last_done))
    /\ out.next_due = DateOf(ReadChore.last_done) + 7

\* ---------------------------------------------------------------- C12
\* r is a date: the month and day of last_done in the following year, and
\* February 28 of the following year when last_done is a February 29
C12_YearlyAnswer(ch, r) ==
    LET a == CivilFromDays(DateOf(ch.last_done))
    IN  /\ r >= 0
        /\ r = IF a.month = 2 /\ a.day = 29
               THEN DaysFromCivil(a.year + 1, 2, 28)
               ELSE DaysFromCivil(a.year + 1, a.month, a.day)

C12_IsYearly(ch) == ch.frequency_type = "Jaarlijks" /\ ch.last_done # NULL

\* C12: for a Yearly chore with a last_done, FrequencyCalculator's
\* calculate_next_due_date and the sensor's both return a date, never an
\* exception: the same month and day one year later, February 28 of the next
\* year for a last_done on February 29
C12_YearlyNextDue ==
    /\ (out.kind = "classify" /\ C12_IsYearly(ReadChore))
          => C12_YearlyAnswer(ReadChore, out.next_due)
    /\ out.kind = "sensor" =>
          \A c \in DOMAIN out.next_due_date :
              C12_IsYearly(chores[c]) => C12_YearlyAnswer(chores[c], out.next_due_date[c])

\* ---------------------------------------------------------------- C13
\* the local dates on which the person completed something
C13_CompletionDays(person) ==
    {DateOf(h.done_at) : h \in {e \in chore_history : e.done_by = person}}

\* the person had an assigned task on that day, as the implementation read
\* tells it from the chores table: get_streaks by a chore of the person never
\* done or last done on or before the day, the sensor by a chore of the
\* person last done on the day
C13_HadTask(person, day) ==
    \E c \in DOMAIN chores :
        /\ chores[c].assigned_to = person
        /\ IF out.kind = "streaks"
           THEN chores[c].last_done = NULL \/ DateOf(chores[c].last_done) <= day
           ELSE chores[c].last_done # NULL /\ DateOf(chores[c].last_done) = day

\* a day the backward walk passes: a completion, or no assigned task
C13_Passes(person, day) ==
    day \in C13_CompletionDays(person) \/ ~C13_HadTask(person, day)

\* today plus the days before it up to the first day with an assigned task
\* and no completion, at most 30 days in all
C13_BackwardWalk(person) ==
    LET today == DateOf(now)
    IN  IF today \notin C13_CompletionDays(person) THEN 0
        ELSE Cardinality({k \in 0..29 : \A j \in 1..k : C13_Passes(person, today - j)})

C13_IsStreakReading == out.kind \in {"streaks", "sensor"} /\ out.status = "ok"

\* C13: in every streak reading the streak of a person who completed
\* something today is the length of the backward walk that passes a day
\* without completion only when the person had no assigned task that day and
\* stops at the first day with an assigned task and no completion.  With
\* completions on Monday and Wednesday (today) only, no assigned task on
\* Tuesday and the walk stopped at Sunday the streak is 3; with an assigned
\* task on Tuesday and nothing completed that day it is 1
C13_StreakNeutrality ==
    C13_IsStreakReading =>
        \A p \in ActiveAssignees :
            LET today == DateOf(now)
                MonWed == C13_CompletionDays(p) = {today - 2, today}
            IN  /\ Weekday(today) = 2
                      => out.streak[p] = C13_BackwardWalk(p)
                /\ (Weekday(today) = 2 /\ MonWed /\ ~C13_HadTask(p, today - 1)
                       /\ C13_HadTask(p, today - 3))
                      => out.streak[p] = 3
                /\ (Weekday(today) = 2 /\ MonWed /\ C13_HadTask(p, today - 1))
                      => out.streak[p] = 1

\* ---------------------------------------------------------------- C14
\* C14: in every streak reading a person with no history entry dated today
\* has streak 0, whatever was completed on earlier days, and every streak
\* lies between 0 and 30
C14_StreakZeroWithoutToday ==
    C13_IsStreakReading =>
        \A p \in ActiveAssignees :
            /\ DateOf(now) \notin C13_CompletionDays(p) => out.streak[p] = 0
            /\ out.streak[p] \in 0..30

\* get_streaks read a history in which A completed something on each of the
\* last 30 days and more (streak 30) and B only on an earlier day (streak 0)
C14_Witness ==
    /\ out.kind = "streaks"
    /\ out.streak["A"] = 30
    /\ Cardinality(C13_CompletionDays("A")) > 30
    /\ C13_CompletionDays("B") # {}
    /\ DateOf(now) \notin C13_CompletionDays("B")
    /\ out.streak["B"] = 0

\* ---------------------------------------------------------------- C15
\* the call ended in the explicit not-found error and wrote nothing
C15_NotFoundError ==
    /\ ~result'.ok
    /\ result'.error = "ValueError: not found"
    /\ UNCHANGED <<chores, chore_history, subtask_completions>>

\* C15: mark_chore_done and update_chore_completion_status with an id of no
\* stored chore, and complete_subtask with an id of no stored subtask, each
\* fail with an explicit not-found error and leave chores, chore_history and
\* subtask_completions unchanged
C15_UnknownIdFails ==
    [][/\ \A c \in ChoreIdArgs \ DOMAIN chores, p \in Persons :
             (\/ db_mark_chore_done(c, p)
              \/ database_mark_chore_done(c, p)
              \/ db_update_chore_completion_status(c)
              \/ database_update_chore_completion_status(c)) => C15_NotFoundError
       /\ \A i \in SubtaskIdArgs, p \in Persons :
             (~SubtaskExists(i) /\ (\/ db_complete_subtask(i, p)
                                    \/ database_handle_complete_subtask(i, p)))
                 => C15_NotFoundError]_vars

\* ---------------------------------------------------------------- C16
\* the instants a text of one of the three accepted shapes encodes:
\* YYYY-MM-DDTHH:MM:SS[.ffffff], YYYY-MM-DD HH:MM:SS, YYYY-MM-DD
C16_Encoded(text) ==
    {Midnight(x[1]) + x[2] : x \in {y \in ParseDates \X ParseTicks :
        text \in {isoformat(Midnight(y[1]) + y[2]),
                  isoformat(Midnight(y[1]) + y[2]) \o Micro,
                  DateText(y[1]) \o <<" ">> \o TimeText(y[2])}}}
    \cup {Midnight(d) : d \in {e \in ParseDates : text = DateText(e)}}

\* C16: parse_date never raises: for a text of one of the three accepted
\* shapes it returns the encoded instant, for every other text (empty,
\* arbitrary, malformed with 'T' or a space) the current time; so
\* calculate_next_due_date and is_due_today always return an answer
C16_ParseDateTotal ==
    /\ out.kind = "parse" =>
          /\ out.status = "ok"
          /\ IF C16_Encoded(ReadChore.last_done_text) # {}
             THEN out.parsed \in C16_Encoded(ReadChore.last_done_text)
             ELSE out.parsed = now
    /\ out.kind = "classify" => out.status = "ok"

\* ---------------------------------------------------------------- C17
\* the weekday is active in the active_days column: true in the map, or
\* absent from it
C17_Active(col, wd) ==
    day_names[wd + 1] \notin DOMAIN col.map \/ col.map[day_names[wd + 1]]

C17_IsDaily(ch) == ch.frequency_type = "Dagelijks" /\ ch.last_done # NULL

\* C17: for a Daily chore with a last_done whose active_days map leaves a
\* weekday active, calculate_next_due_date is the earliest date after
\* date(last_done) on an active weekday; with no active_days map it is
\* last_done + 1 day
C17_DailyNextActiveDay ==
    (out.kind = "classify" /\ C17_IsDaily(ReadChore)) =>
        LET d == DateOf(ReadChore.last_done)
            col == ReadChore.active_days
            r == out.next_due
        IN  /\ (col.kind = "map" /\ \E wd \in 0..6 : C17_Active(col, wd)) =>
                  /\ r > d
                  /\ C17_Active(col, Weekday(r))
                  /\ \A q \in (d + 1)..(r - 1) : ~C17_Active(col, Weekday(q))
            /\ col.kind = "null" => r = d + 1

\* a Daily chore with only Sunday active was last done on a Sunday and is
\* next due seven days later
C17_Witness ==
    /\ out.kind = "classify"
    /\ C17_IsDaily(ReadChore)
    /\ ReadChore.active_days.kind = "map"
    /\ \A wd \in 0..5 : ~C17_Active(ReadChore.active_days, wd)
    /\ Weekday(DateOf(ReadChore.last_done)) = 6
    /\ out.next_due = DateOf(ReadChore.last_done) + 7

\* ---------------------------------------------------------------- C18
\* C18: mark_chore_done(c, p) on a chore that has subtasks records for every
\* subtask of c a completion by p at the instant of the call, so that right
\* afterwards every subtask of c is completed in the current period and the
\* aggregation policy, all or any, is satisfied
C18_MarkDoneCompletesSubtasks ==
    [][\A c \in ChoreIds, p \in Persons :
          ( /\ db_mark_chore_done(c, p) \/ database_mark_chore_done(c, p)
            /\ chores[c].has_subtasks
            /\ SubtaskIdsOf(subtasks, c) # {} ) =>
              LET ids == SubtaskIdsOf(subtasks, c)
                  after == CompletedCount(subtasks, subtask_completions', c)
              IN  /\ \A sid \in ids :
                         [subtask_id |-> sid, done_by |-> p, done_at |-> now]
                             \in subtask_completions'
                  /\ after = Cardinality(ids)
                  /\ chores[c].subtasks_completion_type = "any" => after > 0]_vars

\* ---------------------------------------------------------------- C19
\* C19: when two mark_done service calls on the same alternating chore have
\* both finished, however their reads and writes were interleaved, the state
\* is that of the two calls run one after the other: two history entries,
\* last_done and last_done_by of one of the calls, and assigned_to and
\* alternate_with swapped twice, back to the original pair
C19_TwoCallsSerialized ==
    \A c \in ChoreIds :
        ( /\ \A k \in CallIds : calls[k].pc = "done" /\ calls[k].chore_id = c
          /\ chores[c].use_alternating
          /\ chores[c].alternate_with # "" ) =>
            /\ HistoryOf(chore_history, c) =
                   {[chore_id |-> c, done_by |-> calls[k].person, done_at |-> calls[k].at] :
                       k \in CallIds}
            /\ Cardinality(HistoryOf(chore_history, c)) = 2
            /\ \E k \in CallIds : /\ chores[c].last_done = calls[k].at
                                  /\ chores[c].last_done_by = calls[k].person
            /\ <<chores[c].assigned_to, chores[c].alternate_with>> = C8_OriginalPair(c)

\* ---------------------------------------------------------------- C20
C20_IsFlexible(ch) == ch.frequency_type = "Flexibel" /\ ch.last_done # NULL

\* r is the end of the period of ch that contains last_done, the week ending
\* on the first Sunday that is at least sunday_from days after last_done
C20_PeriodEnd(ch, r, sunday_from) ==
    LET d == DateOf(ch.last_done)
        a == CivilFromDays(d)
    IN  /\ ch.subtasks_period = "day" => r = d + 1
        /\ ch.subtasks_period = "week" =>
              /\ Weekday(r) = 6
              /\ r - d \in sunday_from..(sunday_from + 6)
        /\ ch.subtasks_period = "month" =>
              r = DaysFromCivil(a.year, a.month, DaysInMonth(a.year, a.month))

C20_Readings(sunday_from) ==
    /\ (out.kind = "classify" /\ C20_IsFlexible(ReadChore))
          => C20_PeriodEnd(ReadChore, out.next_due, sunday_from)
    /\ out.kind = "sensor" =>
          \A c \in DOMAIN out.next_due_date :
              (C20_IsFlexible(chores[c])
               /\ chores[c].subtasks_period \in {"day", "week", "month"})
                  => C20_PeriodEnd(chores[c], out.next_due_date[c], sunday_from)

\* C20 as stated: for a Flexible chore and every last_done,
\* calculate_next_due_date is last_done + 1 day for period 'day', the
\* following Sunday (the first Sunday after last_done) for 'week' and the
\* last day of last_done's month for 'month'
C20_FlexiblePeriodEnd == C20_Readings(1)

\* C20 amended: for period 'week' it is the Sunday of last_done's week, which
\* is last_done itself when last_done is a Sunday
C20_FlexibleSundayOfWeek == C20_Readings(0)

\* a Flexible chore with period 'week' last done on a Sunday was read and is
\* due on that same Sunday
C20_Witness ==
    /\ out.kind = "classify"
    /\ C20_IsFlexible(ReadChore)
    /\ ReadChore.subtasks_period = "week"
    /\ Weekday(DateOf(ReadChore.last_done)) = 6
    /\ out.next_due = DateOf(ReadChore.last_done)

\* ---------------------------------------------------------------- C21
C21_Months(ch) ==
    CASE ch.frequency_type = "Maandelijks" /\ ch.monthday <= 0 -> 1
      [] ch.frequency_type = "Per kwartaal" -> 3
      [] ch.frequency_type = "Halfjaarlijks" -> 6
      [] OTHER -> 0

\* r is the date k calendar months after the date of last_done: the months
\* are counted from year 0, the day is the smaller of last_done's day and
\* the length of the target month
C21_AdvancedBy(ch, r, k) ==
    LET a == CivilFromDays(DateOf(ch.last_done))
        index == 12 * a.year + (a.month - 1) + k
        year == index \div 12
        month == (index % 12) + 1
        b == CivilFromDays(r)
    IN  /\ r >= 0
        /\ DaysFromCivil(b.year, b.month, b.day) = r
        /\ b.day \in 1..DaysInMonth(b.year, b.month)
        /\ b.year = year
        /\ b.month = month
        /\ b.day = Min(a.day, DaysInMonth(year, month))

\* C21: for a Monthly chore without monthday, a Quarterly chore and a
\* Semi-annual chore, calculate_next_due_date is last_done advanced by exactly
\* 1, 3 or 6 calendar months (the year incremented past December), the day
\* being min(day of last_done, days in the target month), and it is a valid
\* calendar date for every last_done
C21_CalendarMonthsAdded ==
    /\ (out.kind = "classify" /\ ReadChore.last_done # NULL /\ C21_Months(ReadChore) > 0)
          => C21_AdvancedBy(ReadChore, out.next_due, C21_Months(ReadChore))
    /\ out.kind = "sensor" =>
          \A c \in DOMAIN out.next_due_date :
              (chores[c].last_done # NULL /\ C21_Months(chores[c]) > 0)
                  => C21_AdvancedBy(chores[c], out.next_due_date[c], C21_Months(chores[c]))

\* a Quarterly chore last done on a 30 November was read: due on the last day
\* of February of the next year
C21_Witness ==
    /\ out.kind = "classify"
    /\ ReadChore.last_done # NULL
    /\ ReadChore.frequency_type = "Per kwartaal"
    /\ CivilFromDays(DateOf(ReadChore.last_done)).month = 11
    /\ CivilFromDays(DateOf(ReadChore.last_done)).day = 30
    /\ CivilFromDays(out.next_due).month = 2
    /\ CivilFromDays(out.next_due).day = 28
    /\ CivilFromDays(out.next_due).year = CivilFromDays(DateOf(ReadChore.last_done)).year + 1

\* ---------------------------------------------------------------- C22
C22_IsFallback(ch) == ch.last_done # NULL /\ ch.frequency_type \notin FREQ_TYPES

\* C22: for a chore with last_done set and a frequency_type outside the nine
\* recognised labels, calculate_next_due_date does not fail and returns
\* last_done + frequency_days days (a stored row always carries
\* frequency_days: an absent payload value was stored as 7)
C22_FallbackInterval ==
    /\ (out.kind = "classify" /\ C22_IsFallback(ReadChore))
          => out.next_due = DateOf(ReadChore.last_done) + ReadChore.frequency_days
    /\ out.kind = "sensor" =>
          \A c \in DOMAIN out.next_due_date :
              C22_IsFallback(chores[c])
                  => /\ out.status = "ok"
                     /\ out.next_due_date[c] =
                            DateOf(chores[c].last_done) + chores[c].frequency_days

\* ---------------------------------------------------------------- C23
C23_Searches(ch) ==
    /\ ch.last_done # NULL
    /\ ch.frequency_type \in {"Dagelijks", "Meerdere keren per week"}

\* r was returned, and after at most 8 day advances from last_done + 1 when
\* the chore is one that searches for an active weekday
C23_Returned(ch, r) ==
    /\ r # Diverges
    /\ C23_Searches(ch) => r - (DateOf(ch.last_done) + 1) \in 0..8

\* C23: calculate_next_due_date terminates for every chore snapshot,
\* including Daily and Multiple-per-week chores whose active_days marks all
\* seven weekdays inactive: the active-day search makes at most 8 day
\* advances before it returns
C23_SearchTerminates ==
    /\ out.kind = "classify" => C23_Returned(ReadChore, out.next_due)
    /\ out.kind = "sensor" =>
          \A c \in DOMAIN out.next_due_date : C23_Returned(chores[c], out.next_due_date[c])

\* ---------------------------------------------------------------- C24
\* the start of the window of the period that contains instant t
C24_PeriodStart(period, t) ==
    LET today == DateOf(t)
        a == CivilFromDays(today)
    IN  CASE period = "day" -> Midnight(today)
          [] period = "week" ->
                 Midnight(CHOOSE m \in (today - 6)..today : Weekday(m) = 0)
          [] period = "month" -> Midnight(DaysFromCivil(a.year, a.month, 1))

\* the completions of c's subtasks inside the window, in table comps
C24_InWindow(comps, c) ==
    {r \in comps : /\ r.subtask_id \in SubtaskIdsOf(subtasks, c)
                   /\ r.done_at >= C24_PeriodStart(chores[c].subtasks_period, now)}

C24_Aggregates(c) ==
    \/ db_update_chore_completion_status(c)
    \/ database_update_chore_completion_status(c)
    \/ \E i \in SubtaskIdsOf(subtasks, c), p \in Persons :
          /\ db_complete_subtask(i, p) \/ database_handle_complete_subtask(i, p)
          /\ result'.ok

\* C24: the aggregation counts the distinct subtasks of the chore that have a
\* completion at or after the start of the current day, Monday-based week or
\* month.  Under 'all' a call after which fewer than all subtasks are counted
\* (one subtask completed many times, or the others completed before the
\* window) leaves last_done as it was; under 'any' a call with at least one
\* counted subtask sets last_done to the latest completion in the window
C24_DistinctInPeriod ==
    [][\A c \in ChoreIds :
          (C24_Aggregates(c) /\ chores[c].has_subtasks) =>
              LET rows == C24_InWindow(subtask_completions', c)
                  completed_count == Cardinality({r.subtask_id : r \in rows})
                  n == Cardinality(SubtaskIdsOf(subtasks, c))
                  type == chores[c].subtasks_completion_type
                  reached == IF type = "all" THEN completed_count = n
                             ELSE completed_count > 0
              IN  /\ ~reached => /\ chores'[c].last_done = chores[c].last_done
                                 /\ chores'[c].last_done_by = chores[c].last_done_by
                  /\ reached => \E r \in rows :
                                   /\ \A q \in rows : q.done_at <= r.done_at
                                   /\ chores'[c].last_done = r.done_at
                                   /\ chores'[c].last_done_by = r.done_by]_vars

\* both subtasks of an 'all' chore are completed, one before the start of the
\* window and one inside it, the latter more than once, and last_done was
\* never set
C24_Witness ==
    /\ result.op = "complete_subtask" /\ result.ok /\ result.chore_id = "c1"
    /\ chores["c1"].subtasks_completion_type = "all"
    /\ SubtaskIdsOf(subtasks, "c1") = {1, 2}
    /\ \E r \in subtask_completions :
          /\ r.subtask_id # result.subtask_id
          /\ r.done_at < C24_PeriodStart(chores["c1"].subtasks_period, result.at)
    /\ Cardinality({r \in subtask_completions : r.subtask_id = result.subtask_id
                      /\ r.done_at >= C24_PeriodStart(chores["c1"].subtasks_period, result.at)}) >= 2
    /\ chores["c1"].last_done = NULL

\* the first completion inside the window of an 'any' chore set last_done
C24_WitnessAny ==
    /\ result.op = "complete_subtask" /\ result.ok /\ result.chore_id = "c1"
    /\ chores["c1"].subtasks_completion_type = "any"
    /\ Cardinality(C24_InWindow(subtask_completions, "c1")) = 1
    /\ chores["c1"].last_done = result.at

\* ---------------------------------------------------------------- C25
\* C25: in every state reached through add_chore_to_db (with or without a
\* subtasks list, on a new or an existing chore), add_subtask and
\* delete_subtask, a chore's has_subtasks flag is true exactly when at least
\* one subtask row belongs to the chore
C25_FlagMatchesRows ==
    \A c \in DOMAIN chores :
        chores[c].has_subtasks <=> SubtaskIdsOf(subtasks, c) # {}

\* ---------------------------------------------------------------- C26
\* the completion events recorded for chore c: its history entries and, when
\* it has subtasks, the completions of its subtasks
C26_Events(c) ==
    {[at |-> h.done_at, by |-> h.done_by] : h \in HistoryOf(chore_history, c)}
    \cup (IF chores[c].has_subtasks
          THEN {[at |-> r.done_at, by |-> r.done_by] :
                   r \in CompletionsOf(subtasks, subtask_completions, c)}
          ELSE {})

C27_SensorMatchesCalculator ==
    out.kind = "sensor" =>
        \A c \in DOMAIN out.next_due_date :
            chores[c].last_done # NULL =>
                out.next_due_date[c] = FC_calculate_next_due_date(chores[c], now)

\* ---------------------------------------------------------------- C28
\* C28: immediately after mark_chore_done at instant now, whatever the
\* frequency type and recurrence configuration, calculate_next_due_date of
\* the chore is strictly later than the date of now: the chore just completed
\* is not due again on the day of its completion
C28_NotDueOnCompletionDay ==
    ( /\ out.kind = "classify"
      /\ result.op = "mark_chore_done" /\ result.ok
      /\ result.chore_id = out.chore_id
      /\ ReadChore.last_done = result.at )
        => out.next_due > DateOf(result.at)

\* ---------------------------------------------------------------- C29
\* what the sensor's get_data finds for one chore at instant t, when
\* calculate_next_due_date returns
C29_SensorDue(chore, t) ==
    /\ chore.last_done # NULL => sensor_calculate_next_due_date(chore, t) >= 0
    /\ SensorIsDueToday(chore, t)

C30_Called(c) ==
    /\ result'.op = "handle_force_due"
    /\ result'.at = now
    /\ result'.chore_id = c
    /\ result'.notify
    /\ ~result'.has_message

\* chore c has notify_when_due, a linked assignee and no notification_log
\* row of today, by the local or by SQLite's date
C30_Eligible(c) ==
    /\ chores[c].notify_when_due
    /\ get_ha_user_id_for_assignee(chores[c].assigned_to) # NoUser
    /\ ~\E nl \in notification_log :
           /\ nl.chore_id = c
           /\ DateOf(nl.sent_at) \in {DateOf(now), SqlDateNow}

\* C30: a force_due call with notify=true and no custom message on a chore
\* with notify_when_due, a linked assignee and no notification today sends
\* the assignee's user a notification that includes the forced chore
C30_ForcedChoreNotified ==
    [][\A c \in ChoreIds :
          (C30_Eligible(c) /\ C30_Called(c)) =>
              \E n \in result'.notified :
                  /\ n.ha_user_id = get_ha_user_id_for_assignee(chores[c].assigned_to)
                  /\ c \in n.chore_ids]_vars

====
